---- MODULE Spec2Model ----
(***************************************************************************)
(* Model of the navidrome/insights telemetry aggregation pipeline:         *)
(*   db.SaveReport / db.SelectData        (insights table in SQLite)       *)
(*   summary.SummarizeData / mapPlayerTypes                                *)
(*   summary.SaveSummary / summary.GetSummaries (one JSON file per day)    *)
(* Strings are TLA+ strings; a regular expression is a set of alternatives *)
(* each of which is a sequence of atoms matched character by character.    *)
(***************************************************************************)
EXTENDS Integers, Sequences, FiniteSets, TLC

VARIABLES
    now,        \* wall clock of the server, in seconds since day 0 00:00:00
    insights,   \* the insights table: a sequence of rows [id, time, data]
    files,      \* summaries directory: day -> file content or NoFile
    pc,         \* position of every SummarizeData invocation
    date,       \* its date argument
    rows,       \* the rows its SelectData query returned
    consumed,   \* how many of them its iterator yielded before it stopped
    out,        \* the bytes (lines) it hands to os.WriteFile
    prev,       \* content of the day's file when it entered SaveSummary
    disturbed,  \* another invocation touched that file since then
    err,        \* the error it returned
    faults,     \* I/O faults the environment has injected so far
    calls,      \* number of mapPlayerTypes calls made on the running map
    apIn,       \* ActivePlayers of the last call
    firstIn,    \* per identifier, the rule its range loop hit first
    playersIn,  \* running map before the last call
    players,    \* running map after the last call
    total,      \* value returned by the last call
    labelled,   \* identifier -> labels it has been given so far
    summed,     \* per label, the sum over the calls of the largest count
    binCalls,   \* number of mapToBins calls made on the counters
    binIn,      \* count and bins of the last call
    binInPrev,  \* count and bins of the call before it
    countersIn, \* counters before the last call
    countersInPrev, \* counters before the call before it
    counters,   \* counters after the last call
    statCalls,  \* number of passes of the statistics loop made
    statRows,   \* the Library sections of the reports the pass consumed
    statSummary, \* NumInstances and the seven Stats the pass computed
    trimCalls,  \* number of ExcludeIncompleteDays calls made
    trimIn,     \* the summaries it was given
    trimOut,    \* the summaries it returned
    chartPc,    \* how far the chart functions have been called on chartIn
    chartIn,    \* the summaries the chart functions are called with
    selectionDays, \* the value of consts.VersionSelectionDays of the build
    ts,         \* result of buildTimeSeriesData
    gaps,       \* result of ts.findGaps
    chart,      \* result of buildVersionsChart
    fsCalls,    \* number of mapFS calls counted into musicFS
    fsIn,       \* the *FSInfo of the last call: <<Type>>, or <<>> for nil
    fsName,     \* the name the last call returned
    musicFS,    \* summary.MusicFS after the last call
    verCalls,   \* number of mapVersion calls made
    verIn,      \* data.Version of the call
    verOut,     \* the string it returned
    calcCalls,  \* number of calcStats calls made
    calcIn,     \* the caller's values before the call
    calcAfter,  \* the caller's values after the call
    calcOut,    \* the *Stats it returned
    loopCalls,  \* number of passes of the counting loop made
    loopRows,   \* the reports the pass consumed
    loopFirsts, \* per report, the outcome of mapPlayerTypes' range loops
    loopSummary, \* the Summary after the loop
    barCalls,   \* number of buildTracksChart calls made
    barIn,      \* the summaries it was given
    barOut,     \* the bar values it returned, or a nil chart
    exportCalls, \* number of chart exports that called GetSummaries
    exportSeen, \* the days GetSummaries returned to the last export
    exportDue,  \* the days that were being rewritten during that call
    stored,     \* reports stored over the long run of the cleanup task
    purgedDays, \* the days of the reports PurgeOldEntries has deleted
    sumDate,    \* the date of the last SummarizeData call of the long run
    sumPurged,  \* purgedDays at the time of that call
    dir         \* summaries directory of the long run: date -> content

vars == <<now, insights, files, pc, date, rows, consumed, out, prev,
          disturbed, err, faults, calls, apIn, firstIn, playersIn, players, total,
          labelled, summed, binCalls, binIn, binInPrev, countersIn,
          countersInPrev, counters, statCalls, statRows, statSummary,
          trimCalls, trimIn, trimOut, chartPc, chartIn, selectionDays, ts,
          gaps, chart, fsCalls, fsIn, fsName, musicFS, verCalls, verIn,
          verOut, calcCalls, calcIn, calcAfter, calcOut, loopCalls, loopRows,
          loopFirsts, loopSummary, barCalls, barIn, barOut, exportCalls,
          exportSeen, exportDue, stored, purgedDays, sumDate, sumPurged, dir>>

dbVars == <<now, insights>>
runVars == <<pc, date, rows, consumed, out, prev, disturbed, err>>
playerVars == <<calls, apIn, firstIn, playersIn, players, total, labelled,
               summed>>
binVars == <<binCalls, binIn, binInPrev, countersIn, countersInPrev, counters>>
statVars == <<statCalls, statRows, statSummary>>
trimVars == <<trimCalls, trimIn, trimOut>>
chartVars == <<chartPc, chartIn, selectionDays, ts, gaps, chart>>
fsVars == <<fsCalls, fsIn, fsName, musicFS>>
verVars == <<verCalls, verIn, verOut>>
calcVars == <<calcCalls, calcIn, calcAfter, calcOut>>
loopVars == <<loopCalls, loopRows, loopFirsts, loopSummary>>
barVars == <<barCalls, barIn, barOut>>
exportVars == <<exportCalls, exportSeen, exportDue>>
purgeVars == <<stored, purgedDays, sumDate, sumPurged, dir>>
moreVars == <<fsVars, verVars, calcVars, loopVars, barVars, exportVars,
             purgeVars>>
libVars == <<binVars, statVars, trimVars, chartVars, moreVars>>

(***************************************************************************)
(* Bounds                                                                  *)
(***************************************************************************)
MaxPlayers == 2      \* identifiers in one ActivePlayers map
MaxCount == 2        \* largest session count of one identifier
MaxCalls == 2        \* mapPlayerTypes calls on one running map
MaxReports == 2      \* rows ever stored in the insights table
SecondsPerDay == 2   \* seconds in a calendar day
NumDays == 2         \* calendar days the clock runs through
MaxRuns == 2         \* SummarizeData invocations
MaxFaults == 1       \* failed scans, opens and writes in one behaviour
MaxBin == 2          \* largest threshold of a drawn bins list
MaxBinCalls == 2     \* mapToBins calls on one counters map
MaxStatRows == 2     \* reports one pass of the statistics loop consumes
MaxTrimLen == 4      \* summaries in a drawn list of daily instance counts
MaxAxis == 5         \* calendar days the summaries of a chart spread over
MaxWindow == 2       \* largest consts.VersionSelectionDays a build is made with
MaxFSCalls == 2      \* mapFS calls counted into one map
MaxPieces == 3       \* pieces a drawn version string is put together from
MaxCalcLen == 4      \* values in a drawn input of calcStats
MaxCalcValue == 3    \* largest of these values
MaxLoopRows == 3     \* reports one pass of the counting loop consumes
MaxTrackReports == 3 \* instances of the latest summary of a tracks chart
MaxExports == 1      \* chart exports beside the summarize task
MaxLongDays == 62    \* calendar days the clock of the long run goes through
MaxLongReports == 1  \* reports stored in the long run
CollectDays == 1     \* first days of the long run in which reports arrive

(***************************************************************************)
(* Strings, maps                                                           *)
(***************************************************************************)
Char(s, i) == SubSeq(s, i, i)

EmptyMap == [k \in {} |-> 0]

Get(m, k) == IF k \in DOMAIN m THEN m[k] ELSE 0

Put(m, k, v) == [x \in (DOMAIN m) \cup {k} |-> IF x = k THEN v ELSE m[x]]

Max(a, b) == IF a >= b THEN a ELSE b

RECURSIVE SumOver(_, _)
SumOver(m, ks) ==
    IF ks = {} THEN 0
    ELSE LET k == CHOOSE x \in ks : TRUE IN m[k] + SumOver(m, ks \ {k})

UpperCase == "ABCDEFGHIJKLMNOPQRSTUVWXYZ"
LowerCase == "abcdefghijklmnopqrstuvwxyz"

\* simple case folding of one character, as (?i) applies it
Fold(c) ==
    IF \E i \in 1..Len(UpperCase) : Char(UpperCase, i) = c
    THEN Char(LowerCase, CHOOSE i \in 1..Len(UpperCase) : Char(UpperCase, i) = c)
    ELSE c

(***************************************************************************)
(* Regular expressions of playersTypes                                     *)
(***************************************************************************)
AnyChar == "ANY" \* the atom .
Rest == "REST"   \* a trailing .*

Lit(s) == [i \in 1..Len(s) |-> Char(s, i)]

\* number of atoms that consume exactly one character
Fixed(pat) ==
    IF Len(pat) > 0 /\ pat[Len(pat)] = Rest THEN Len(pat) - 1 ELSE Len(pat)

MatchAt(pat, fold, s, i) ==
    /\ i + Fixed(pat) - 1 <= Len(s)
    /\ \A j \in 1..Fixed(pat) :
          \/ pat[j] = AnyChar
          \/ IF fold THEN Fold(pat[j]) = Fold(Char(s, i + j - 1))
                     ELSE pat[j] = Char(s, i + j - 1)

\* regexp.MatchString: unanchored search unless the expression starts with ^
MatchString(re, s) ==
    \E pat \in re.alts :
        \E i \in (IF re.anchored THEN {1} ELSE 1..(Len(s) + 1)) :
            MatchAt(pat, re.fold, s, i)

Re(alts, anchored, fold, label) ==
    [alts |-> alts, anchored |-> anchored, fold |-> fold, label |-> label]

\* the rules in the order the source lists them; the program keeps them in a
\* Go map, whose range order is unspecified
playersTypesCI == <<
    Re({Lit("NavidromeUI") \o <<Rest>>}, FALSE, FALSE, "NavidromeUI"),
    Re({Lit("supersonic")}, FALSE, FALSE, "Supersonic"),
    Re({Lit("feishin")}, FALSE, TRUE, ""),
    Re({Lit("audioling")}, FALSE, FALSE, "Audioling"),
    Re({Lit("AginMusic") \o <<Rest>>}, TRUE, FALSE, "AginMusic"),
    Re({Lit("playSub") \o <<Rest>>}, FALSE, FALSE, "play:Sub"),
    Re({Lit("eu") \o <<AnyChar>> \o Lit("callcc") \o <<AnyChar>> \o Lit("audrey")},
       FALSE, FALSE, "audrey"),
    Re({Lit("DSubCC")}, FALSE, FALSE, ""),
    Re({Lit("bonob+") \o <<Rest>>}, FALSE, FALSE, ""),
    Re({Lit("http://airsonic") \o <<Rest>>,
        Lit("https://airsonic") \o <<Rest>>}, FALSE, FALSE, "Airsonic Refix"),
    Re({Lit("multi-scrobbler") \o <<Rest>>}, FALSE, FALSE, "Multi-Scrobbler"),
    Re({Lit("SubMusic") \o <<Rest>>}, FALSE, FALSE, "SubMusic"),
    Re({Lit("hiby"), Lit("_hiby_")}, FALSE, TRUE, "HiBy"),
    Re({Lit("microSub")}, FALSE, FALSE, "AVSub"),
    Re({Lit("Stream Music")}, FALSE, FALSE, "Musiver") >>

playersTypes == <<
    Re({Lit("NavidromeUI") \o <<Rest>>}, FALSE, FALSE, "NavidromeUI"),
    Re({Lit("supersonic")}, FALSE, FALSE, "Supersonic"),
    Re({Lit("feishin")}, FALSE, FALSE, ""),
    Re({Lit("audioling")}, FALSE, FALSE, "Audioling"),
    Re({Lit("AginMusic") \o <<Rest>>}, TRUE, FALSE, "AginMusic"),
    Re({Lit("playSub") \o <<Rest>>}, FALSE, FALSE, "play:Sub"),
    Re({Lit("eu") \o <<AnyChar>> \o Lit("callcc") \o <<AnyChar>> \o Lit("audrey")},
       FALSE, FALSE, "audrey"),
    Re({Lit("DSubCC")}, FALSE, FALSE, ""),
    Re({Lit("bonob+") \o <<Rest>>}, FALSE, FALSE, ""),
    Re({Lit("http://airsonic") \o <<Rest>>,
        Lit("https://airsonic") \o <<Rest>>}, FALSE, FALSE, "Airsonic Refix"),
    Re({Lit("multi-scrobbler") \o <<Rest>>}, FALSE, FALSE, "Multi-Scrobbler"),
    Re({Lit("SubMusic") \o <<Rest>>}, FALSE, FALSE, "SubMusic"),
    Re({Lit("hiby"), Lit("_hiby_")}, FALSE, TRUE, "HiBy"),
    Re({Lit("microSub")}, FALSE, FALSE, "AVSub"),
    Re({Lit("Stream Music")}, FALSE, FALSE, "Musiver") >>

\* the identifiers that occur in the reports of the model
PlayerIds == {"feishin_", "Feishin", "playSub", "playSub_HiBy", "play:Sub",
              ""}

\* rules matching identifier p: whichever of them the range loop meets first
\* decides the label (0: no rule matches, the loop runs to its end)
Matching(p) == {i \in DOMAIN playersTypes : MatchString(playersTypes[i], p)}

FirstHit(p) == IF Matching(p) = {} THEN {0} ELSE Matching(p)

\* FirstHit, tabulated over the identifiers of the model
FirstHitOf == [p \in PlayerIds |-> FirstHit(p)]

\* all outcomes of the inner range loops for the identifiers ids
RECURSIVE FirstHitsOver(_)
FirstHitsOver(ids) ==
    IF ids = {} THEN {EmptyMap}
    ELSE LET p == CHOOSE x \in ids : TRUE
         IN {Put(f, p, i) : f \in FirstHitsOver(ids \ {p}), i \in FirstHitOf[p]}

FirstHits(ap) == FirstHitsOver(DOMAIN ap)

\* the labels of the rules, tabulated
LabelOf == [i \in DOMAIN playersTypes |-> playersTypes[i].label]

RelabelUnknown(p, first) == IF first = 0 THEN "unknown" ELSE LabelOf[first]

\* p after the inner loop: "p = t; break", or p itself
Relabel(p, first) == IF first = 0 THEN p ELSE LabelOf[first]

SeenStepSum(seen, p, count) ==
    IF p # "" THEN Put(seen, p, Get(seen, p) + count) ELSE seen

SeenStep(seen, p, count) ==
    IF p # "" THEN Put(seen, p, Max(Get(seen, p), count)) ELSE seen

RECURSIVE SeenLoop(_, _, _, _)
SeenLoop(ap, first, todo, seen) ==
    IF todo = {} THEN seen
    ELSE LET p == CHOOSE x \in todo : TRUE
         IN SeenLoop(ap, first, todo \ {p},
                     SeenStep(seen, Relabel(p, first[p]), ap[p]))

mapPlayerTypesAssign(ap, first, running) ==
    LET seen == SeenLoop(ap, first, DOMAIN ap, EmptyMap)
    IN [total   |-> SumOver(seen, DOMAIN seen),
        players |-> [k \in (DOMAIN running) \cup (DOMAIN seen) |->
                        IF k \in DOMAIN seen THEN seen[k] ELSE running[k]]]

\* mapPlayerTypes(data, players): the returned total and the updated map
mapPlayerTypes(ap, first, running) ==
    LET seen == SeenLoop(ap, first, DOMAIN ap, EmptyMap)
    IN [total   |-> SumOver(seen, DOMAIN seen),
        players |-> [k \in (DOMAIN running) \cup (DOMAIN seen) |->
                        Get(running, k) + Get(seen, k)]]

(***************************************************************************)
(* Inputs of mapPlayerTypes                                                *)
(***************************************************************************)
ActivePlayerMaps ==
    UNION {[ids -> 0..MaxCount] :
              ids \in {s \in SUBSET PlayerIds : Cardinality(s) <= MaxPlayers}}

(***************************************************************************)
(* Text order of strings (bytewise, as SQLite and encoding/json compare)   *)
(***************************************************************************)
Ascii == " +-./0123456789:ABCDEFGHIJKLMNOPQRSTUVWXYZ_abcdefghijklmnopqrstuvwxyz"

Rank(c) == CHOOSE i \in 1..Len(Ascii) : Char(Ascii, i) = c

StrLess(a, b) ==
    \E i \in 1..(Len(a) + 1) :
        /\ i <= Len(b)
        /\ \A j \in 1..(i - 1) : Char(a, j) = Char(b, j)
        /\ i <= Len(a) => Rank(Char(a, i)) < Rank(Char(b, i))

RECURSIVE SortedKeys(_)
SortedKeys(S) ==
    IF S = {} THEN <<>>
    ELSE LET m == CHOOSE x \in S : \A y \in S \ {x} : StrLess(x, y)
         IN <<m>> \o SortedKeys(S \ {m})

\* itoa, as fmt.Sprintf("%d", n) prints a non-negative n
RECURSIVE Itoa(_)
Itoa(n) ==
    IF n < 10 THEN Char("0123456789", n + 1)
    ELSE Itoa(n \div 10) \o Char("0123456789", (n % 10) + 1)

\* fmt.Sprintf("%d", n)
Sprintf_d(n) == IF n < 0 THEN "-" \o Itoa(0 - n) ELSE Itoa(n)

(***************************************************************************)
(* mapToBins                                                               *)
(***************************************************************************)
TrackBins == <<0, 1, 100, 500, 1000, 5000, 10000, 20000, 50000, 100000,
               500000, 1000000>>

\* the loop of mapToBins taken from the lowest threshold upwards
RECURSIVE mapToBinsAscending(_, _, _, _)
mapToBinsAscending(count, bins, ctrs, i) ==
    IF i >= Len(bins) THEN ctrs
    ELSE LET bin == bins[i + 1]
         IN IF count >= bin
            THEN Put(ctrs, Sprintf_d(bin), Get(ctrs, Sprintf_d(bin)) + 1)
            ELSE mapToBinsAscending(count, bins, ctrs, i + 1)

\* for i := range bins { bin := bins[len(bins)-1-i]; if count >= bin {
\* counters[Sprintf("%d", bin)]++; return } }, entered with i = 0
RECURSIVE mapToBins(_, _, _, _)
mapToBins(count, bins, ctrs, i) ==
    IF i >= Len(bins) THEN ctrs
    ELSE LET bin == bins[Len(bins) - i]
         IN IF count >= bin
            THEN Put(ctrs, Sprintf_d(bin), Get(ctrs, Sprintf_d(bin)) + 1)
            ELSE mapToBins(count, bins, ctrs, i + 1)

\* the ascending list of the thresholds in S
RECURSIVE Ascending(_)
Ascending(S) ==
    IF S = {} THEN <<>>
    ELSE LET m == CHOOSE x \in S : \A y \in S : x <= y
         IN <<m>> \o Ascending(S \ {m})

\* the bins lists and counts mapToBins is called with
BinLists == {Ascending(S) : S \in SUBSET (0..MaxBin)} \cup {TrackBins}

BinCounts == (-1..(MaxBin + 1)) \cup {100}

(***************************************************************************)
(* calcStats and the samples SummarizeData collects for it                 *)
(***************************************************************************)
Abs(n) == IF n < 0 THEN 0 - n ELSE n

RECURSIVE Gcd(_, _)
Gcd(a, b) == IF b = 0 THEN a ELSE Gcd(b, a % b)

\* float64(num) / float64(den), kept as the exact fraction in lowest terms
Rat(num, den) ==
    LET g == Gcd(Abs(num), den)
    IN [num |-> num \div g, den |-> den \div g]

\* math.Sqrt(q), kept as the fraction under the root
Sqrt(q) == [sqrtOf |-> q]

\* slices.Sort on the copy of values
RECURSIVE SortInts(_)
SortInts(values) ==
    IF values = <<>> THEN <<>>
    ELSE LET i == CHOOSE j \in DOMAIN values :
                     \A k \in DOMAIN values : values[j] <= values[k]
         IN <<values[i]>> \o
            SortInts(SubSeq(values, 1, i - 1) \o
                     SubSeq(values, i + 1, Len(values)))

RECURSIVE SumSeq(_)
SumSeq(values) ==
    IF values = <<>> THEN 0 ELSE values[1] + SumSeq(Tail(values))

\* a nil *Stats
NilStats == [nil |-> TRUE]

\* sorted := make([]int64, len(values)); copy(sorted, values);
\* slices.Sort(sorted): the caller's slice and the sorted copy
SortedCopy(values) == [values |-> values, sorted |-> SortInts(values)]

SampleDivisor(n) == IF n > 1 THEN n - 1 ELSE 1

\* the divisor float64(n) of sumSquaredDiff
PopulationDivisor(n) == n

calcStats(values) ==
    IF Len(values) = 0 THEN NilStats
    ELSE LET sorted == SortedCopy(values).sorted
             n == Len(sorted)
             sum == SumSeq(sorted)
             \* diff*diff summed, every diff scaled by n
             sq == SumSeq([i \in 1..n |->
                             (n * sorted[i] - sum) * (n * sorted[i] - sum)])
         IN [Min    |-> sorted[1],
             Max    |-> sorted[n],
             Mean   |-> Rat(sum, n),
             Median |-> IF n % 2 = 0
                        THEN Rat(sorted[n \div 2] + sorted[(n \div 2) + 1], 2)
                        ELSE Rat(sorted[(n \div 2) + 1], 1),
             StdDev |-> Sqrt(Rat(sq, n * n * PopulationDivisor(n)))]

LibraryFields == <<"Tracks", "Albums", "Artists", "Playlists", "Shares",
                   "Radios", "Libraries">>

\* if data.Library.X > 0 { xValues = append(xValues, data.Library.X) }
AppendNonNegative(values, v) == IF v >= 0 THEN Append(values, v) ELSE values

AppendPositive(values, v) == IF v > 0 THEN Append(values, v) ELSE values

ZeroSamples == [f \in {LibraryFields[i] : i \in 1..7} |-> <<>>]

\* the appends of one iteration of "for data := range rows"
CollectRow(samples, lib) ==
    [Tracks    |-> AppendPositive(samples.Tracks, lib.Tracks),
     Albums    |-> AppendPositive(samples.Albums, lib.Albums),
     Artists   |-> AppendPositive(samples.Artists, lib.Artists),
     Playlists |-> Append(samples.Playlists, lib.Playlists),
     Shares    |-> Append(samples.Shares, lib.Shares),
     Radios    |-> Append(samples.Radios, lib.Radios),
     Libraries |-> Append(samples.Libraries, lib.Libraries)]

RECURSIVE CollectRows(_, _)
CollectRows(libs, k) ==
    IF k = 0 THEN ZeroSamples
    ELSE CollectRow(CollectRows(libs, k - 1), libs[k])

\* NumInstances and summary.XStats = calcStats(xValues) after the loop
SummarizeStats(libs) ==
    LET samples == CollectRows(libs, Len(libs))
    IN [NumInstances  |-> Len(libs),
        TrackStats    |-> calcStats(samples.Tracks),
        AlbumStats    |-> calcStats(samples.Albums),
        ArtistStats   |-> calcStats(samples.Artists),
        PlaylistStats |-> calcStats(samples.Playlists),
        ShareStats    |-> calcStats(samples.Shares),
        RadioStats    |-> calcStats(samples.Radios),
        LibraryStats  |-> calcStats(samples.Libraries)]

\* Library sections of the reports of the model: every field zero, every
\* field negative, and for each field the section where only it is zero
\* and the one where only it is positive, at two magnitudes
LibraryOf(pos, scale) ==
    [f \in {LibraryFields[i] : i \in 1..7} |->
        LET i == CHOOSE j \in 1..7 : LibraryFields[j] = f
        IN IF i \in pos THEN scale + i ELSE 0]

Libraries ==
    {LibraryOf(pos, scale) :
        pos \in {{}, 1..7} \cup {{i} : i \in 1..7}
                 \cup {(1..7) \ {i} : i \in 1..7},
        scale \in {0, 10}}
    \cup {[f \in {LibraryFields[i] : i \in 1..7} |-> 0 - 1]}

RECURSIVE SeqsUpTo(_, _)
SeqsUpTo(S, n) ==
    IF n = 0 THEN {<<>>}
    ELSE LET shorter == SeqsUpTo(S, n - 1)
         IN shorter \cup {Append(q, x) : q \in shorter, x \in S}

(***************************************************************************)
(* ExcludeIncompleteDays                                                   *)
(***************************************************************************)
\* consts.IncompleteThreshold = 0.8
IncompleteThreshold == [num |-> 8, den |-> 10]

DropOrEqual(last, previous) ==
    last.Data.NumInstances * IncompleteThreshold.den
        <= IncompleteThreshold.num * previous.Data.NumInstances

\* float64(last.Data.NumInstances) / float64(prev.Data.NumInstances)
\*     < consts.IncompleteThreshold, for prev.Data.NumInstances > 0
\* (the quotient of two counts below 2^51 rounds to below the float64
\* nearest 0.8 exactly when the fraction is below 8/10)
SignificantDrop(last, previous) ==
    last.Data.NumInstances * IncompleteThreshold.den
        < IncompleteThreshold.num * previous.Data.NumInstances

\* nil for an empty list, else the "for len(summaries) > 1" loop
RECURSIVE ExcludeIncompleteDays(_)
ExcludeIncompleteDays(summaries) ==
    IF Len(summaries) <= 1 THEN summaries
    ELSE LET last == summaries[Len(summaries)]
             previous == summaries[Len(summaries) - 1]
         IN IF previous.Data.NumInstances > 0 /\ SignificantDrop(last, previous)
            THEN ExcludeIncompleteDays(SubSeq(summaries, 1, Len(summaries) - 1))
            ELSE summaries

\* summaries of consecutive days with the given instance counts
DailyCounts(counts) ==
    [i \in 1..Len(counts) |->
        [Time |-> i, Data |-> [NumInstances |-> counts[i]]]]

TrimExample == <<1000, 1050, 1100, 700, 100, 50>>

\* the lists ExcludeIncompleteDays is called with: short lists of small
\* counts, and the stretches of the list of its test
TrimInputs ==
    {DailyCounts(c) : c \in SeqsUpTo({0, 4, 5, 10}, MaxTrimLen)}
    \cup {DailyCounts(SubSeq(TrimExample, i, j)) : i, j \in 1..Len(TrimExample)}

(***************************************************************************)
(* Time series of the charts: buildTimeSeriesData, findGaps                *)
(***************************************************************************)
\* a summary's Time is its day, counted from 1 for January 1st, 2025
AddDate(t, n) == t + n

TwoDigits(n) == IF n < 10 THEN "0" \o Itoa(n) ELSE Itoa(n)

\* d.Format(consts.ChartDateFormat), "Jan 02, 2006"
ChartDateFormat(d) ==
    IF d <= 31 THEN "Jan " \o TwoDigits(d) \o ", 2025"
    ELSE IF d <= 59 THEN "Feb " \o TwoDigits(d - 31) \o ", 2025"
    ELSE "Mar " \o TwoDigits(d - 59) \o ", 2025"

AfterOrEqual(a, b) == a >= b

\* a.After(b)
After(a, b) == a > b

\* for i := range summaries { lookup[summaries[i].Time] = &summaries[i] }
RECURSIVE BuildLookup(_, _)
BuildLookup(summaries, i) ==
    IF i = 0 THEN EmptyMap
    ELSE Put(BuildLookup(summaries, i - 1), summaries[i].Time, summaries[i])

\* for d := start; !d.After(end); d = d.AddDate(0, 0, 1) { append }
RECURSIVE DateRange(_, _)
DateRange(d, end) ==
    IF After(d, end) THEN <<>>
    ELSE <<ChartDateFormat(d)>> \o DateRange(AddDate(d, 1), end)

\* timeSeriesData{}
ZeroTimeSeries == [Dates |-> <<>>, Lookup |-> EmptyMap, Start |-> 0]

buildTimeSeriesData(summaries) ==
    IF Len(summaries) = 0 THEN ZeroTimeSeries
    ELSE [Dates  |-> DateRange(summaries[1].Time,
                               summaries[Len(summaries)].Time),
          Lookup |-> BuildLookup(summaries, Len(summaries)),
          Start  |-> summaries[1].Time]

gapRange(s, e) ==
    [StartDate |-> ChartDateFormat(s), EndDate |-> ChartDateFormat(e)]

GapEndSameDay(d) == d

\* gapEnd := date.AddDate(0, 0, -1)
GapEnd(d) == AddDate(d, 0 - 1)

\* the loop "for i := range ts.Dates" and the "if inGap" that follows it
RECURSIVE GapLoop(_, _, _, _, _)
GapLoop(series, i, found, gapStart, inGap) ==
    IF i >= Len(series.Dates)
    THEN IF inGap
         THEN Append(found,
                     gapRange(gapStart,
                              AddDate(series.Start, Len(series.Dates) - 1)))
         ELSE found
    ELSE LET d == AddDate(series.Start, i)
             hasData == d \in DOMAIN series.Lookup
         IN IF ~hasData /\ ~inGap
            THEN GapLoop(series, i + 1, found, d, TRUE)
            ELSE IF hasData /\ inGap
            THEN GapLoop(series, i + 1,
                         Append(found, gapRange(gapStart, GapEnd(d))),
                         gapStart, FALSE)
            ELSE GapLoop(series, i + 1, found, gapStart, inGap)

findGaps(series) ==
    IF Len(series.Dates) = 0 THEN <<>>
    ELSE GapLoop(series, 0, <<>>, 0, FALSE)

(***************************************************************************)
(* buildVersionsChart                                                      *)
(***************************************************************************)
TopVersionsCount == 15

\* the keys getTopKeys(m, n) can return: min(n, len(m)) keys none of which
\* has a smaller value than a key left out; which of several keys of equal
\* value make the cut depends on the order the map is ranged in (the order
\* of the returned slice is replaced by the sort of its caller)
getTopKeys(m, n) ==
    LET keys == DOMAIN m
        k == IF n > Cardinality(keys) THEN Cardinality(keys) ELSE n
    IN IF k = Cardinality(keys) THEN {keys}
       ELSE IF k = 0 THEN {{}}
       ELSE LET v == CHOOSE x \in {m[q] : q \in keys} :
                        /\ Cardinality({q \in keys : m[q] > x}) < k
                        /\ Cardinality({q \in keys : m[q] >= x}) >= k
                above == {q \in keys : m[q] > v}
                ties == {q \in keys : m[q] = v}
            IN {above \cup t :
                   t \in {u \in SUBSET ties :
                             Cardinality(u) = k - Cardinality(above)}}

\* slices.SortFunc(topVersionsList, ...) by the last day's count, highest
\* first: the list as the sequence of its groups of equal count (the order
\* within a group is the sort's choice)
RECURSIVE SortByLastCount(_, _)
SortByLastCount(top, lastVersions) ==
    IF top = {} THEN <<>>
    ELSE LET c == CHOOSE x \in {Get(lastVersions, q) : q \in top} :
                     \A q \in top : Get(lastVersions, q) <= x
             first == {q \in top : Get(lastVersions, q) = c}
         IN <<first>> \o SortByLastCount(top \ first, lastVersions)

\* a.Before(b)
Before(a, b) == a < b

\* versionTotals after the summaries 1..i: those not before cutoffDate count
RECURSIVE WindowTotals(_, _, _)
WindowTotals(summaries, cutoffDate, i) ==
    IF i = 0 THEN EmptyMap
    ELSE LET acc == WindowTotals(summaries, cutoffDate, i - 1)
             versions == summaries[i].Data.Versions
         IN IF ~Before(summaries[i].Time, cutoffDate)
            THEN [q \in (DOMAIN acc) \cup (DOMAIN versions) |->
                     Get(acc, q) + Get(versions, q)]
            ELSE acc

\* opts.LineData{Value: n} and opts.LineData{Value: nil}
LineData(n) == <<n>>

NullData == <<>>

OthersCountAll(versions, topSet) == SumOver(versions, DOMAIN versions)

\* othersCount: the counts of the versions that are not in topVersionsSet
OthersCount(versions, topSet) ==
    SumOver(versions, (DOMAIN versions) \ topSet)

\* a run-time panic of the Go runtime
Panic(msg) == [panic |-> msg]

\* the series of the chart for the selected versions top
VersionsSeries(summaries, series, versionTotals, top) ==
    LET start == summaries[1].Time
        n == Len(series.Dates)
        day(i) == AddDate(start, i - 1)
        has(i) == day(i) \in DOMAIN series.Lookup
        versions(i) == series.Lookup[day(i)].Data.Versions
    IN [panic |-> "",
        XAxis |-> series.Dates,
        versionTotals |-> versionTotals,
        topVersionsList |->
            SortByLastCount(top, summaries[Len(summaries)].Data.Versions),
        All |-> [i \in 1..n |->
                    IF has(i)
                    THEN LineData(SumOver(versions(i), DOMAIN versions(i)))
                    ELSE NullData],
        Versions |-> [q \in top |->
                        [i \in 1..n |->
                            IF has(i) THEN LineData(Get(versions(i), q))
                            ELSE NullData]],
        Others |-> [i \in 1..n |->
                       IF has(i) THEN LineData(OthersCount(versions(i), top))
                       ELSE NullData],
        MarkAreas |-> findGaps(series)]

\* the charts buildVersionsChart(summaries) can return when
\* consts.VersionSelectionDays is days; summaries[0] of an empty list is an
\* index out of range
buildVersionsChart(summaries, days) ==
    IF Len(summaries) = 0
    THEN {Panic("index out of range [0] with length 0")}
    ELSE LET series == buildTimeSeriesData(summaries)
             lastDate == summaries[Len(summaries)].Time
             cutoffDate == AddDate(lastDate, 0 - days)
             versionTotals == WindowTotals(summaries, cutoffDate,
                                           Len(summaries))
         IN {VersionsSeries(summaries, series, versionTotals, top) :
                top \in getTopKeys(versionTotals, TopVersionsCount)}

(***************************************************************************)
(* Inputs of the chart functions                                           *)
(***************************************************************************)
\* sixteen versions of distinct counts, as in the test of the rolling
\* window, so that the least of them falls out of the top fifteen
SixteenVersions ==
    [q \in {"v" \o TwoDigits(i) : i \in 1..16} |->
        LET i == CHOOSE j \in 1..16 : q = "v" \o TwoDigits(j)
        IN 17 - i]

VersionMaps ==
    {("old" :> 5), ("new" :> 1), ("old" :> 1 @@ "new" :> 1), SixteenVersions}

SummaryRecord(t, versions) ==
    [Time |-> t,
     Data |-> [NumInstances |-> SumOver(versions, DOMAIN versions),
               Versions |-> versions]]

\* the lists of summaries of distinct days from day on, in date order
RECURSIVE SummariesFrom(_)
SummariesFrom(day) ==
    IF day > MaxAxis THEN {<<>>}
    ELSE LET later == SummariesFrom(day + 1)
         IN later \cup {<<SummaryRecord(day, q)>> \o r :
                           q \in VersionMaps, r \in later}

ChartInputs == SummariesFrom(1)

(***************************************************************************)
(* The insights table                                                      *)
(***************************************************************************)
InstanceIds == {"a", "b"}

\* the payload (insights.Data without its id) each instance reports
ReportOf ==
    [id \in InstanceIds |->
        IF id = "a"
        THEN [ActiveUsers |-> 1, ActivePlayers |-> ("playSub_HiBy" :> 1)]
        ELSE [ActiveUsers |-> 0,
              ActivePlayers |-> ("feishin_" :> 1 @@ "Feishin" :> 1)]]

\* t.Format("2006-01-02 15:04:05"): the date and the time of day, to the second
TimeFormat(t) == <<t \div SecondsPerDay, t % SecondsPerDay>>

\* date.Format("2006-01-02")
DateFormat(t) == <<t \div SecondsPerDay>>

\* SQLite date(?, '+1 day')
PlusOneDay(d) == <<d[1] + 1>>

\* SQLite compares the stored text with the date text: the first differing
\* field decides, and a proper prefix sorts first
TextLess(a, b) ==
    \E i \in 1..(Len(a) + 1) :
        /\ i <= Len(b)
        /\ \A j \in 1..(i - 1) : a[j] = b[j]
        /\ i <= Len(a) => a[i] < b[i]

\* now.Truncate(24 * time.Hour)
Truncate24h(t) == t - (t % SecondsPerDay)

\* number of rows of the table
NumRows(table) == Len(table)

\* INSERT INTO insights (id, data, time) VALUES (?, ?, ?)
SaveReport(table, id, data, t) ==
    Append(table, [id |-> id, time |-> TimeFormat(t), data |-> data])

\* WHERE time >= date(?) AND time < date(?, '+1 day')
InDay(time, d) == ~TextLess(time, d) /\ TextLess(time, PlusOneDay(d))

\* MIN(time) of a non-empty set of stored times
MinTime(S) == CHOOSE t \in S : \A u \in S : ~TextLess(u, t)

\* MAX(time) of a non-empty set of stored times
MaxTime(S) == CHOOSE t \in S : \A u \in S : ~TextLess(t, u)

\* SELECT id, MAX(time) as max_time FROM insights WHERE ... GROUP BY id
GroupMaxTime(table, d) ==
    LET W == {n \in DOMAIN table : InDay(table[n].time, d)}
    IN {[id |-> i, max_time |-> MaxTime({table[n].time : n \in {m \in W : table[m].id = i}})] :
           i \in {table[n].id : n \in W}}

\* rowids of i1 INNER JOIN i2 ON i1.id = i2.id AND i1.time = i2.max_time
\* WHERE i1.time >= date(?) AND time < date(?, '+1 day')
Joined(table, d) ==
    {n \in DOMAIN table :
        /\ \E g \in GroupMaxTime(table, d) :
              table[n].id = g.id /\ table[n].time = g.max_time
        /\ InDay(table[n].time, d)}

\* ORDER BY i1.id, i1.time DESC: r may come before q
OrderedBefore(r, q) ==
    \/ StrLess(r.id, q.id)
    \/ r.id = q.id /\ ~TextLess(r.time, q.time)

\* SelectData(db, date): every sequence of rows the query may return (rows
\* that tie on id and time may come in any order)
SelectData(table, dt) ==
    LET d == DateFormat(dt)
        J == Joined(table, d)
        n == Cardinality(J)
    IN {[i \in 1..n |-> table[o[i]]] :
           o \in {p \in [1..n -> J] :
                    /\ \A i, j \in 1..n : i # j => p[i] # p[j]
                    /\ \A i, j \in 1..n :
                          i < j => OrderedBefore(table[p[i]], table[p[j]])}}

(***************************************************************************)
(* Summary and its JSON form, one element per line json.MarshalIndent      *)
(* prints: t is the kind of line, k its name or key, v its number and c    *)
(* whether a comma ends it                                                 *)
(***************************************************************************)
ZeroSummary ==
    [NumInstances |-> 0, NumActiveUsers |-> 0, PlayerTypes |-> EmptyMap,
     Players |-> EmptyMap, Users |-> EmptyMap]

Line(t, k, v, c) == [t |-> t, k |-> k, v |-> v, c |-> c]

\* a number field with omitempty
NumMember(name, v) ==
    IF v = 0 THEN <<>> ELSE <<Line("num", name, v, TRUE)>>

\* a map field with omitempty; encoding/json sorts the keys
MapMember(name, m) ==
    IF DOMAIN m = {} THEN <<>>
    ELSE LET keys == SortedKeys(DOMAIN m)
         IN <<Line("map{", name, 0, FALSE)>>
            \o [i \in 1..Len(keys) |->
                   Line("ent", keys[i], m[keys[i]], i < Len(keys))]
            \o <<Line("}map", "", 0, TRUE)>>

NoTrailingComma(body) ==
    IF body = <<>> THEN body ELSE [body EXCEPT ![Len(body)].c = FALSE]

\* json.MarshalIndent(summary, "", "  ")
MarshalIndent(s) ==
    <<Line("{", "", 0, FALSE)>>
    \o NoTrailingComma(NumMember("numInstances", s.NumInstances)
                       \o NumMember("numActiveUsers", s.NumActiveUsers)
                       \o MapMember("playerTypes", s.PlayerTypes)
                       \o MapMember("players", s.Players)
                       \o MapMember("users", s.Users))
    \o <<Line("}", "", 0, FALSE)>>

SetNum(acc, name, v) ==
    IF name = "numInstances" THEN [acc EXCEPT !.NumInstances = v]
    ELSE IF name = "numActiveUsers" THEN [acc EXCEPT !.NumActiveUsers = v]
    ELSE acc

SetEntry(acc, name, k, v) ==
    IF name = "playerTypes" THEN [acc EXCEPT !.PlayerTypes = Put(@, k, v)]
    ELSE IF name = "players" THEN [acc EXCEPT !.Players = Put(@, k, v)]
    ELSE IF name = "users" THEN [acc EXCEPT !.Users = Put(@, k, v)]
    ELSE acc

AfterMember(l) == IF l.c THEN "more" ELSE "end"

Bad == [ok |-> FALSE, summary |-> ZeroSummary]

\* the decoder at line i: inMap is the map being read ("" at the top level),
\* top and sub say what may follow at the top level and inside that map:
\* "first" a member or the end, "more" a member, "end" the end
RECURSIVE Decode(_, _, _, _, _, _)
Decode(lines, i, inMap, top, sub, acc) ==
    LET l == lines[i] IN
    IF i = Len(lines)
    THEN IF l.t = "}" /\ inMap = "" /\ top \in {"first", "end"}
         THEN [ok |-> TRUE, summary |-> acc] ELSE Bad
    ELSE IF inMap = ""
    THEN IF l.t = "num" /\ top \in {"first", "more"}
         THEN Decode(lines, i + 1, "", AfterMember(l), sub,
                     SetNum(acc, l.k, l.v))
         ELSE IF l.t = "map{" /\ top \in {"first", "more"}
         THEN Decode(lines, i + 1, l.k, top, "first", acc)
         ELSE Bad
    ELSE IF l.t = "ent" /\ sub \in {"first", "more"}
         THEN Decode(lines, i + 1, inMap, top, AfterMember(l),
                     SetEntry(acc, inMap, l.k, l.v))
         ELSE IF l.t = "}map" /\ sub \in {"first", "end"}
         THEN Decode(lines, i + 1, "", AfterMember(l), sub, acc)
         ELSE Bad

\* json.Unmarshal(data, &summary)
Unmarshal(lines) ==
    IF Len(lines) >= 2 /\ lines[1].t = "{"
    THEN Decode(lines, 2, "", "first", "first", ZeroSummary)
    ELSE Bad

(***************************************************************************)
(* The summaries directory                                                 *)
(***************************************************************************)
Days == 0..(NumDays - 1)

NoFile == [exists |-> FALSE, content |-> <<>>]

File(content) == [exists |-> TRUE, content |-> content]

\* the day SummaryFilePath(t) names: "summary-" + t.Format(DateFormat) + ".json"
SummaryFilePath(t) == DateFormat(t)[1]

\* os.OpenFile(name, O_WRONLY|O_CREATE|O_TRUNC, perm)
OpenTrunc(fs, d) == [fs EXCEPT ![d] = File(<<>>)]

\* f.Write(data) at offset 0 of a file opened by OpenTrunc, n bytes accepted
WriteAt0(fs, d, data, n) ==
    [fs EXCEPT ![d] = File(SubSeq(data, 1, n)
                           \o SubSeq(fs[d].content, n + 1, Len(fs[d].content)))]

\* slices.SortFunc(summaries, by Time): insertion of one record
RECURSIVE SortInsert(_, _)
SortInsert(sorted, rec) ==
    IF sorted = <<>> THEN <<rec>>
    ELSE IF rec.Time < sorted[Len(sorted)].Time
    THEN Append(SortInsert(SubSeq(sorted, 1, Len(sorted) - 1), rec),
                sorted[Len(sorted)])
    ELSE Append(sorted, rec)

RECURSIVE SortByTime(_)
SortByTime(recs) ==
    IF recs = <<>> THEN <<>>
    ELSE SortInsert(SortByTime(SubSeq(recs, 1, Len(recs) - 1)), recs[Len(recs)])

\* the WalkDir callback on the files of days d, d+1, ...
RECURSIVE Walk(_, _, _)
Walk(fs, d, summaries) ==
    IF d \notin DOMAIN fs THEN summaries
    ELSE LET u == Unmarshal(fs[d].content)
         IN IF ~fs[d].exists \/ ~u.ok \/ u.summary.NumInstances = 0
            THEN Walk(fs, d + 1, summaries)
            ELSE Walk(fs, d + 1,
                      Append(summaries, [Time |-> d, Data |-> u.summary]))

\* GetSummaries()
GetSummaries(fs) == SortByTime(Walk(fs, 0, <<>>))

(***************************************************************************)
(* SummarizeData                                                           *)
(***************************************************************************)
NoDataNever(summary) == FALSE

\* if summary.NumInstances == 0 { return nil }
NoData(summary) == summary.NumInstances = 0

\* one iteration of "for data := range rows"
SummarizeRow(summary, data, first) ==
    LET mp == mapPlayerTypes(data.ActivePlayers, first, summary.PlayerTypes)
    IN [NumInstances   |-> summary.NumInstances + 1,
        NumActiveUsers |-> summary.NumActiveUsers + data.ActiveUsers,
        PlayerTypes    |-> mp.players,
        Players        |-> Put(summary.Players, Itoa(mp.total),
                               Get(summary.Players, Itoa(mp.total)) + 1),
        Users          |-> Put(summary.Users, Itoa(data.ActiveUsers),
                               Get(summary.Users, Itoa(data.ActiveUsers)) + 1)]

\* the loop over the first k rows the iterator yields
RECURSIVE SummarizeRows(_, _, _)
SummarizeRows(res, firsts, k) ==
    IF k = 0 THEN ZeroSummary
    ELSE SummarizeRow(SummarizeRows(res, firsts, k - 1), res[k].data, firsts[k])

\* the outcomes of mapPlayerTypes' range loops for rows 1..k
RowFirstHits(res, k) ==
    {f \in [1..k -> UNION {FirstHits(res[i].data.ActivePlayers) : i \in 1..k}] :
        \A i \in 1..k : f[i] \in FirstHits(res[i].data.ActivePlayers)}

(***************************************************************************)
(* mapFS, mapVersion, mapOS                                                *)
(***************************************************************************)
\* strings.ToLower on the letters of the model's alphabet
RECURSIVE ToLower(_)
ToLower(s) ==
    IF s = "" THEN "" ELSE Fold(Char(s, 1)) \o ToLower(SubSeq(s, 2, Len(s)))

fsMappings ==
    "unknown(0x2011bab0)" :> "exfat" @@
    "unknown(0x7366746e)" :> "ntfs" @@
    "unknown(0xc36400)" :> "ceph" @@
    "unknown(0xf15f)" :> "ecryptfs" @@
    "unknown(0xff534d42)" :> "cifs" @@
    "unknown(0x786f4256)" :> "vboxsf" @@
    "unknown(0xf2f52010)" :> "f2fs" @@
    "unknown(0x5346544e)" :> "ntfs" @@
    "unknown(0x482b)" :> "hfs+" @@
    "unknown(0xca451a4e)" :> "virtiofs" @@
    "unknown(0x187)" :> "autofs" @@
    "unknown(0x-6edc97c2)" :> "btrfs" @@
    "unknown(0x-1acb2be)" :> "smb2" @@
    "unknown(0x-acb2be)" :> "cifs" @@
    "unknown(0x-d0adff0)" :> "f2fs"

\* a *FSInfo is <<>> when nil and <<Type>> otherwise
mapFS(fs) ==
    IF fs = <<>> THEN "unknown"
    ELSE IF fs[1] \in DOMAIN fsMappings THEN fsMappings[fs[1]]
    ELSE ToLower(fs[1])

HexDigits == "0123456789abcdefABCDEF"

IsHex(c) == \E i \in 1..Len(HexDigits) : Char(HexDigits, i) = c

\* length of the run of hex digits of s that starts at i
RECURSIVE HexRun(_, _)
HexRun(s, i) ==
    IF i <= Len(s) /\ IsHex(Char(s, i)) THEN 1 + HexRun(s, i + 1) ELSE 0

HashLen == 8

\* versionRegex \(([0-9a-fA-F]{8})[0-9a-fA-F]*\) matches at i
MatchVersionAt(s, i) ==
    /\ Char(s, i) = "("
    /\ HexRun(s, i + 1) >= HashLen
    /\ i + 1 + HexRun(s, i + 1) <= Len(s)
    /\ Char(s, i + 1 + HexRun(s, i + 1)) = ")"

Submatch1Whole(s, i) == SubSeq(s, i + 1, i + HexRun(s, i + 1))

\* $1 of the match at i
Submatch1(s, i) == SubSeq(s, i + 1, i + HashLen)

\* versionRegex.ReplaceAllString(s, "($1)") from position i on: the
\* leftmost matches, none overlapping another
RECURSIVE ReplaceAllString(_, _)
ReplaceAllString(s, i) ==
    IF i > Len(s) THEN ""
    ELSE IF MatchVersionAt(s, i)
    THEN "(" \o Submatch1(s, i) \o ")"
         \o ReplaceAllString(s, i + HexRun(s, i + 1) + 2)
    ELSE Char(s, i) \o ReplaceAllString(s, i + 1)

mapVersion(version) == ReplaceAllString(version, 1)

\* the upper-case form of one character
ToUpperChar(c) ==
    IF \E i \in 1..Len(LowerCase) : Char(LowerCase, i) = c
    THEN Char(UpperCase, CHOOSE i \in 1..Len(LowerCase) : Char(LowerCase, i) = c)
    ELSE c

\* caser.String(s) of cases.Title(language.Und) on a single word
Title(s) ==
    IF s = "" THEN ""
    ELSE ToUpperChar(Char(s, 1)) \o ToLower(SubSeq(s, 2, Len(s)))

\* strings.Replace(s, "bsd", "BSD", -1) from position i on
RECURSIVE ReplaceBsd(_, _)
ReplaceBsd(s, i) ==
    IF i > Len(s) THEN ""
    ELSE IF i + 2 <= Len(s) /\ SubSeq(s, i, i + 2) = "bsd"
    THEN "BSD" \o ReplaceBsd(s, i + 3)
    ELSE Char(s, i) \o ReplaceBsd(s, i + 1)

mapOS(os) ==
    LET osName == IF os.Type = "darwin" THEN "macOS"
                  ELSE IF os.Type = "linux"
                  THEN IF os.Containerized THEN "Linux (containerized)"
                       ELSE "Linux"
                  ELSE ReplaceBsd(Title(os.Type), 1)
    IN osName \o " - " \o os.Arch

(***************************************************************************)
(* The counting loop of SummarizeData over all the fields of a report      *)
(***************************************************************************)
AlbumBins == <<0, 1, 10, 50, 100, 500, 1000, 2000, 5000, 10000, 50000, 100000>>

ArtistBins == <<0, 1, 10, 50, 100, 500, 1000, 2000, 5000, 10000, 50000, 100000>>

\* m[k]++
Inc(m, k) == Put(m, k, Get(m, k) + 1)

IsLinux(os) == os.Type = "linux"

\* data.OS.Type == "linux" && !data.OS.Containerized
IsBareLinux(os) == os.Type = "linux" /\ ~os.Containerized

ZeroCounts ==
    [Versions |-> EmptyMap, OS |-> EmptyMap, Distros |-> EmptyMap,
     MusicFS |-> EmptyMap, DataFS |-> EmptyMap, Tracks |-> EmptyMap,
     Albums |-> EmptyMap, Artists |-> EmptyMap]

\* one iteration of "for data := range rows": the maps SummarizeRow leaves out
CountRow(summary, data) ==
    [Versions |-> Inc(summary.Versions, mapVersion(data.Version)),
     OS       |-> Inc(summary.OS, mapOS(data.OS)),
     Distros  |-> IF IsBareLinux(data.OS)
                  THEN Inc(summary.Distros, data.OS.Distro)
                  ELSE summary.Distros,
     MusicFS  |-> Inc(summary.MusicFS, mapFS(data.FS.Music)),
     DataFS   |-> Inc(summary.DataFS, mapFS(data.FS.Data)),
     Tracks   |-> mapToBins(data.Library.Tracks, TrackBins, summary.Tracks, 0),
     Albums   |-> mapToBins(data.Library.Albums, AlbumBins, summary.Albums, 0),
     Artists  |-> mapToBins(data.Library.Artists, ArtistBins,
                            summary.Artists, 0)]

\* the whole loop over the first k rows the iterator yields
RECURSIVE SummarizeLoop(_, _, _)
SummarizeLoop(res, firsts, k) ==
    IF k = 0 THEN ZeroSummary @@ ZeroCounts
    ELSE LET summary == SummarizeLoop(res, firsts, k - 1)
         IN SummarizeRow(summary, res[k].data, firsts[k])
            @@ CountRow(summary, res[k].data)

\* a Library section with the given Tracks, Albums and Artists
LibraryWith(tracks, albums, artists) ==
    [Tracks |-> tracks, Albums |-> albums, Artists |-> artists,
     Playlists |-> 0, Shares |-> 0, Radios |-> 0, Libraries |-> 1]

OSInfo(type, containerized, distro, arch) ==
    [Type |-> type, Containerized |-> containerized, Distro |-> distro,
     Arch |-> arch]

Report(version, os, music, data, lib, users, ap) ==
    [Version |-> version, OS |-> os, FS |-> [Music |-> music, Data |-> data],
     Library |-> lib, ActiveUsers |-> users, ActivePlayers |-> ap]

\* the reports of the model: bare and containerized Linux, macOS, FreeBSD and
\* Windows hosts; short and long commit hashes; named, numbered and missing
\* filesystems; empty, small, large and negative libraries; players that
\* share a label, are discarded or match no rule
LoopReports ==
    {Report("0.54.2 (0b184893)", OSInfo("linux", FALSE, "debian", "amd64"),
            <<"ext4">>, <<"ext4">>, LibraryWith(120, 12, 3), 1,
            "playSub" :> 2 @@ "playSub_HiBy" :> 1),
     Report("0.54.2 (0b184893278620bb)", OSInfo("linux", FALSE, "arch", "arm64"),
            <<"unknown(0x-6edc97c2)">>, <<"unknown(0xf2f52010)">>,
            LibraryWith(0, 0, 0), 0, EmptyMap),
     Report("0.54.2 (0b184893)", OSInfo("linux", TRUE, "alpine", "amd64"),
            <<"unknown(0xff534d42)">>, <<>>, LibraryWith(1000000, 100000, 50), 2,
            "feishin_" :> 1 @@ "Feishin" :> 2),
     Report("dev", OSInfo("darwin", FALSE, "", "arm64"),
            <<"APFS">>, <<"APFS">>, LibraryWith(499, 10, 1), 1,
            "play:Sub" :> 1 @@ "playSub" :> 1),
     Report("0.54.3 (source_archive)", OSInfo("freebsd", FALSE, "", "amd64"),
            <<"zfs">>, <<"zfs">>, LibraryWith(0 - 1, 0 - 1, 0 - 1), 1,
            "" :> 1 @@ "Feishin" :> 1),
     Report("0.54.3-SNAPSHOT (734eb30a)", OSInfo("windows", FALSE, "", "amd64"),
            <<"NTFS">>, <<"unknown(0x5346544e)">>, LibraryWith(5000, 0, 0 - 1), 0,
            "feishin_" :> 2)}

(***************************************************************************)
(* buildTracksChart                                                        *)
(***************************************************************************)
trackBinLabels ==
    <<"0", "1-500", "501-1,000", "1,001-5,000", "5,001-10,000",
      "10,001-20,000", "20,001-50,000", "50,001-100,000",
      "100,001-500,000", "500,001-1,000,000", ">1,000,001">>

binToLabel ==
    "0" :> "0" @@
    "1" :> "1-500" @@
    "500" :> "501-1,000" @@
    "1000" :> "1,001-5,000" @@
    "5000" :> "5,001-10,000" @@
    "10000" :> "10,001-20,000" @@
    "20000" :> "20,001-50,000" @@
    "50000" :> "50,001-100,000" @@
    "100000" :> "100,001-500,000" @@
    "500000" :> "500,001-1,000,000" @@
    "1000000" :> ">1,000,001"

\* a nil *charts.Bar
NilChart == [nil |-> TRUE]

\* the value of the bar of a label: latest.Data.Tracks[binKey] of the binKey
\* whose binLabel is the label, 0 when there is none
BarValue(tracks, label) ==
    IF \E binKey \in DOMAIN binToLabel : binToLabel[binKey] = label
    THEN Get(tracks, CHOOSE binKey \in DOMAIN binToLabel :
                        binToLabel[binKey] = label)
    ELSE 0

\* the data of the "Installations" series, in the order of trackBinLabels
buildTracksChart(summaries) ==
    IF Len(summaries) = 0 THEN NilChart
    ELSE LET latest == summaries[Len(summaries)]
         IN [i \in 1..Len(trackBinLabels) |->
                BarValue(latest.Data.Tracks, trackBinLabels[i])]

\* the Tracks counters the loop of SummarizeData leaves for the given counts
RECURSIVE TracksOf(_)
TracksOf(trackCounts) ==
    IF trackCounts = <<>> THEN EmptyMap
    ELSE mapToBins(trackCounts[Len(trackCounts)], TrackBins,
                   TracksOf(SubSeq(trackCounts, 1, Len(trackCounts) - 1)), 0)

\* track counts of instances: the lowest and the highest count of every bin
\* up to 10000, the last threshold, and a negative count
TrackCounts ==
    {0 - 1, 0, 1, 99, 100, 499, 500, 999, 1000, 4999, 5000, 9999, 10000,
     1000000}

(***************************************************************************)
(* State machine of the server                                             *)
(***************************************************************************)
SummarizeLookbackDays == 10

Runs == 1..MaxRuns

\* the dates the summarize task passes to SummarizeData at time t:
\* now.AddDate(0, 0, -d) for d < SummarizeLookbackDays (days before day 0
\* hold no report and no file)
LookbackDates(t) ==
    {Truncate24h(t) - d * SecondsPerDay : d \in 0..(SummarizeLookbackDays - 1)}
    \cap {d * SecondsPerDay : d \in Days}

(***************************************************************************)
(* PurgeOldEntries and the dates of the summarize task                     *)
(***************************************************************************)
PurgeRetentionDays == 60

PurgeCutoffHours(t) == t - ((PurgeRetentionDays * SecondsPerDay) \div 24)

\* time.Now().Add(-60*24*time.Hour)
PurgeCutoff(t) == t - PurgeRetentionDays * SecondsPerDay

\* the text go-sqlite3 binds for a time.Time parameter: the date and the time
\* of day, then the fraction of the second and the zone
DriverTimeFormat(t) == TimeFormat(t) \o <<0>>

\* DELETE FROM insights WHERE time < ?: the row numbers it deletes
PurgedRows(table, t) ==
    {n \in DOMAIN table :
        TextLess(table[n].time, DriverTimeFormat(PurgeCutoff(t)))}

\* the rows of the table that are not in the set gone, in their order
RECURSIVE Remaining(_, _, _)
Remaining(table, gone, n) ==
    IF n = 0 THEN <<>>
    ELSE IF n \in gone THEN Remaining(table, gone, n - 1)
    ELSE Append(Remaining(table, gone, n - 1), table[n])

\* PurgeOldEntries(db) at time t
PurgeOldEntries(table, t) == Remaining(table, PurgedRows(table, t), Len(table))

\* now.AddDate(0, 0, -d) for d < SummarizeLookbackDays, whatever the day
SummarizeDates(t) ==
    {Truncate24h(t) - d * SecondsPerDay : d \in 0..(SummarizeLookbackDays - 1)}

InitServer ==
    /\ now = 0
    /\ insights = <<>>
    /\ files = [d \in Days |-> NoFile]
    /\ pc = [r \in Runs |-> "idle"]
    /\ date = [r \in Runs |-> 0]
    /\ rows = [r \in Runs |-> <<>>]
    /\ consumed = [r \in Runs |-> 0]
    /\ out = [r \in Runs |-> <<>>]
    /\ prev = [r \in Runs |-> NoFile]
    /\ disturbed = [r \in Runs |-> FALSE]
    /\ err = [r \in Runs |-> "nil"]
    /\ faults = 0

InitPlayers ==
    /\ calls = 0
    /\ apIn = EmptyMap
    /\ firstIn = EmptyMap
    /\ playersIn = EmptyMap
    /\ players = EmptyMap
    /\ total = 0
    /\ labelled = [p \in PlayerIds |-> {}]
    /\ summed = EmptyMap

InitBins ==
    /\ binCalls = 0
    /\ binIn = [count |-> 0, bins |-> <<>>]
    /\ binInPrev = [count |-> 0, bins |-> <<>>]
    /\ countersIn = EmptyMap
    /\ countersInPrev = EmptyMap
    /\ counters = EmptyMap

InitStats ==
    /\ statCalls = 0
    /\ statRows = <<>>
    /\ statSummary = SummarizeStats(<<>>)

InitTrim ==
    /\ trimCalls = 0
    /\ trimIn = <<>>
    /\ trimOut = <<>>

InitCharts ==
    /\ chartPc = "start"
    /\ chartIn = <<>>
    /\ selectionDays = 0
    /\ ts = ZeroTimeSeries
    /\ gaps = <<>>
    /\ chart = Panic("")

InitFS ==
    /\ fsCalls = 0
    /\ fsIn = <<>>
    /\ fsName = ""
    /\ musicFS = EmptyMap

InitVersion ==
    /\ verCalls = 0
    /\ verIn = ""
    /\ verOut = ""

InitCalc ==
    /\ calcCalls = 0
    /\ calcIn = <<>>
    /\ calcAfter = <<>>
    /\ calcOut = NilStats

InitLoop ==
    /\ loopCalls = 0
    /\ loopRows = <<>>
    /\ loopFirsts = <<>>
    /\ loopSummary = ZeroSummary @@ ZeroCounts

InitBars ==
    /\ barCalls = 0
    /\ barIn = <<>>
    /\ barOut = NilChart

InitExport ==
    /\ exportCalls = 0
    /\ exportSeen = {}
    /\ exportDue = {}

InitLong ==
    /\ stored = 0
    /\ purgedDays = {}
    /\ sumDate = <<>>
    /\ sumPurged = {}
    /\ dir = EmptyMap

Init ==
    /\ InitServer
    /\ InitPlayers
    /\ InitBins
    /\ InitStats
    /\ InitTrim
    /\ InitCharts
    /\ InitFS
    /\ InitVersion
    /\ InitCalc
    /\ InitLoop
    /\ InitBars
    /\ InitExport
    /\ InitLong

\* the clock passes a second
Tick ==
    /\ now + 1 < NumDays * SecondsPerDay
    /\ now' = now + 1
    /\ UNCHANGED <<insights, files, runVars, faults, playerVars, libVars>>

\* POST /collect: handler stores the report under time.Now()
Collect ==
    /\ NumRows(insights) < MaxReports
    /\ \E id \in InstanceIds :
          insights' = SaveReport(insights, id, ReportOf[id], now)
    /\ UNCHANGED <<now, files, runVars, faults, playerVars, libVars>>

\* the invocations that see another one touch the file of day d
Disturb(r, d) ==
    [q \in Runs |-> IF q # r /\ pc[q] # "idle" /\ SummaryFilePath(date[q]) = d
                    THEN TRUE ELSE disturbed[q]]

\* SummarizeData up to the call of SaveSummary: the query, the loop over the
\* rows the iterator yields (it stops at a row that fails to scan or decode),
\* and the return when nothing was counted
Summarize(r) ==
    /\ pc[r] = "idle"
    /\ \A q \in Runs : q < r => pc[q] # "idle"
    /\ \E dt \in LookbackDates(now) :
       \E res \in SelectData(insights, dt) :
       \E k \in 0..Len(res) :
       \E firsts \in RowFirstHits(res, k) :
          LET summary == SummarizeRows(res, firsts, k) IN
          /\ k < Len(res) => faults < MaxFaults
          /\ faults' = IF k < Len(res) THEN faults + 1 ELSE faults
          /\ date' = [date EXCEPT ![r] = dt]
          /\ rows' = [rows EXCEPT ![r] = res]
          /\ consumed' = [consumed EXCEPT ![r] = k]
          /\ IF NoData(summary)
             THEN /\ pc' = [pc EXCEPT ![r] = "done"]
                  /\ UNCHANGED <<out, prev>>
             ELSE /\ pc' = [pc EXCEPT ![r] = "save"]
                  /\ out' = [out EXCEPT ![r] = MarshalIndent(summary)]
                  /\ prev' = [prev EXCEPT ![r] = files[SummaryFilePath(dt)]]
    /\ UNCHANGED <<now, insights, files, disturbed, err, playerVars, libVars>>

\* db.Query fails: SummarizeData returns the error
SelectFails(r) ==
    /\ pc[r] = "idle"
    /\ faults < MaxFaults
    /\ faults' = faults + 1
    /\ \A q \in Runs : q < r => pc[q] # "idle"
    /\ \E dt \in LookbackDates(now) : date' = [date EXCEPT ![r] = dt]
    /\ pc' = [pc EXCEPT ![r] = "done"]
    /\ err' = [err EXCEPT ![r] = "error"]
    /\ UNCHANGED <<now, insights, files, rows, consumed, out, prev, disturbed,
                   playerVars, libVars>>

\* SaveSummary: MkdirAll, MarshalIndent or the open of os.WriteFile fails
SaveFails(r) ==
    /\ pc[r] = "save"
    /\ faults < MaxFaults
    /\ faults' = faults + 1
    /\ pc' = [pc EXCEPT ![r] = "done"]
    /\ err' = [err EXCEPT ![r] = "error"]
    /\ UNCHANGED <<now, insights, files, date, rows, consumed, out, prev,
                   disturbed, playerVars, libVars>>

\* SaveSummary: os.WriteFile creates or truncates the file
SaveOpen(r) ==
    /\ pc[r] = "save"
    /\ files' = OpenTrunc(files, SummaryFilePath(date[r]))
    /\ disturbed' = Disturb(r, SummaryFilePath(date[r]))
    /\ pc' = [pc EXCEPT ![r] = "write"]
    /\ UNCHANGED <<now, insights, date, rows, consumed, out, prev, err,
                   faults, playerVars, libVars>>

\* SaveSummary: os.WriteFile writes the data; the write may stop short with
\* an error, which SummarizeData returns
SaveWrite(r) ==
    /\ pc[r] = "write"
    /\ \E n \in 0..Len(out[r]) :
          /\ n < Len(out[r]) => faults < MaxFaults
          /\ faults' = IF n < Len(out[r]) THEN faults + 1 ELSE faults
          /\ files' = WriteAt0(files, SummaryFilePath(date[r]), out[r], n)
          /\ err' = [err EXCEPT ![r] = IF n = Len(out[r]) THEN "nil" ELSE "error"]
    /\ disturbed' = Disturb(r, SummaryFilePath(date[r]))
    /\ pc' = [pc EXCEPT ![r] = "done"]
    /\ UNCHANGED <<now, insights, date, rows, consumed, out, prev, playerVars, libVars>>

Next ==
    \/ Tick
    \/ Collect
    \/ \E r \in Runs : Summarize(r)
    \/ \E r \in Runs : SelectFails(r)
    \/ \E r \in Runs : SaveFails(r)
    \/ \E r \in Runs : SaveOpen(r)
    \/ \E r \in Runs : SaveWrite(r)

Spec == Init /\ [][Next]_vars

(***************************************************************************)
(* The server with its SummarizeData invocations serialized: one starts    *)
(* only when no other is running                                           *)
(***************************************************************************)
NoneRunning == \A q \in Runs : pc[q] \in {"idle", "done"}

SummarizeSerial(r) == NoneRunning /\ Summarize(r)

SelectFailsSerial(r) == NoneRunning /\ SelectFails(r)

NextSerial ==
    \/ Tick
    \/ Collect
    \/ \E r \in Runs : SummarizeSerial(r)
    \/ \E r \in Runs : SelectFailsSerial(r)
    \/ \E r \in Runs : SaveFails(r)
    \/ \E r \in Runs : SaveOpen(r)
    \/ \E r \in Runs : SaveWrite(r)

SpecSerial == Init /\ [][NextSerial]_vars

(***************************************************************************)
(* mapPlayerTypes on its own: calls on one running map                     *)
(***************************************************************************)
\* the largest count among the identifiers of ap that are given label L
LargestCount(ap, first, L) ==
    LET ids == {p \in DOMAIN ap : Relabel(p, first[p]) = L}
    IN IF ids = {} THEN 0
       ELSE CHOOSE c \in {ap[p] : p \in ids} : \A p \in ids : ap[p] <= c

CallMapPlayerTypes ==
    /\ calls < MaxCalls
    /\ \E ap \in ActivePlayerMaps :
       \E first \in FirstHits(ap) :
          LET res == mapPlayerTypes(ap, first, players) IN
          /\ apIn' = ap
          /\ firstIn' = first
          /\ playersIn' = players
          /\ players' = res.players
          /\ total' = res.total
          /\ labelled' = [p \in PlayerIds |->
                            IF p \in DOMAIN ap
                            THEN labelled[p] \cup {Relabel(p, first[p])}
                            ELSE labelled[p]]
          /\ summed' = LET labels == {Relabel(p, first[p]) : p \in DOMAIN ap} \ {""}
                        IN [L \in (DOMAIN summed) \cup labels |->
                               Get(summed, L) + LargestCount(ap, first, L)]
    /\ calls' = calls + 1
    /\ UNCHANGED <<dbVars, files, runVars, faults, libVars>>

NextPlayers == CallMapPlayerTypes

SpecPlayers == Init /\ [][NextPlayers]_vars

(***************************************************************************)
(* mapToBins on its own: calls on one counters map                         *)
(***************************************************************************)
CallMapToBins ==
    /\ binCalls < MaxBinCalls
    /\ \E c \in BinCounts : \E B \in BinLists :
          /\ binIn' = [count |-> c, bins |-> B]
          /\ counters' = mapToBins(c, B, counters, 0)
    /\ binInPrev' = binIn
    /\ countersIn' = counters
    /\ countersInPrev' = countersIn
    /\ binCalls' = binCalls + 1
    /\ UNCHANGED <<dbVars, files, runVars, faults, playerVars, statVars, trimVars,
                   chartVars, moreVars>>

NextBins == CallMapToBins

SpecBins == Init /\ [][NextBins]_vars

(***************************************************************************)
(* The statistics of SummarizeData on their own: one pass over the rows    *)
(***************************************************************************)
CallSummarizeStats ==
    /\ statCalls = 0
    /\ \E libs \in SeqsUpTo(Libraries, MaxStatRows) :
          /\ statRows' = libs
          /\ statSummary' = SummarizeStats(libs)
    /\ statCalls' = 1
    /\ UNCHANGED <<dbVars, files, runVars, faults, playerVars, binVars, trimVars,
                   chartVars, moreVars>>

NextStats == CallSummarizeStats

SpecStats == Init /\ [][NextStats]_vars

(***************************************************************************)
(* ExcludeIncompleteDays on its own                                        *)
(***************************************************************************)
CallExcludeIncompleteDays ==
    /\ trimCalls = 0
    /\ \E summaries \in TrimInputs :
          /\ trimIn' = summaries
          /\ trimOut' = ExcludeIncompleteDays(summaries)
    /\ trimCalls' = 1
    /\ UNCHANGED <<dbVars, files, runVars, faults, playerVars, binVars,
                   statVars, chartVars, moreVars>>

NextTrim == CallExcludeIncompleteDays

SpecTrim == Init /\ [][NextTrim]_vars

(***************************************************************************)
(* The chart functions on their own, called in turn on one list            *)
(***************************************************************************)
serverVars == <<dbVars, files, runVars, faults>>

\* summaries = ExcludeIncompleteDays(summaries), the first step of
\* ChartsHandler and ExportChartsJSON
ExcludeFromCharts ==
    /\ chartPc = "start"
    /\ \E summaries \in ChartInputs :
          /\ chartIn' = summaries
          /\ trimIn' = summaries
          /\ trimOut' = ExcludeIncompleteDays(summaries)
    /\ trimCalls' = 1
    /\ chartPc' = "trimmed"
    /\ UNCHANGED <<serverVars, playerVars, binVars, statVars, selectionDays,
                   ts, gaps, chart, moreVars>>

CallBuildTimeSeriesData ==
    /\ chartPc = "trimmed"
    /\ ts' = buildTimeSeriesData(chartIn)
    /\ chartPc' = "series"
    /\ UNCHANGED <<serverVars, playerVars, binVars, statVars, trimVars,
                   chartIn, selectionDays, gaps, chart, moreVars>>

CallFindGaps ==
    /\ chartPc = "series"
    /\ gaps' = findGaps(ts)
    /\ chartPc' = "gaps"
    /\ UNCHANGED <<serverVars, playerVars, binVars, statVars, trimVars,
                   chartIn, selectionDays, ts, chart, moreVars>>

CallBuildVersionsChart ==
    /\ chartPc = "gaps"
    /\ \E days \in 1..MaxWindow :
          /\ selectionDays' = days
          /\ chart' \in buildVersionsChart(chartIn, days)
    /\ chartPc' = "chart"
    /\ UNCHANGED <<serverVars, playerVars, binVars, statVars, trimVars,
                   chartIn, ts, gaps, moreVars>>

NextCharts ==
    \/ ExcludeFromCharts
    \/ CallBuildTimeSeriesData
    \/ CallFindGaps
    \/ CallBuildVersionsChart

SpecCharts == Init /\ [][NextCharts]_vars

(***************************************************************************)
(* mapFS on its own: the calls that count into summary.MusicFS             *)
(***************************************************************************)
\* the *FSInfo values of the model: nil, every tag of the table, the
\* unsigned forms of the tags the table holds in signed form, and tags the
\* table does not hold
FSInfos ==
    {<<>>} \cup
    {<<t>> : t \in DOMAIN fsMappings \cup
                   {"unknown(0x9123683e)", "unknown(0xfe534d42)", "ext4",
                    "NTFS", "Btrfs"}}

CallMapFS ==
    /\ fsCalls < MaxFSCalls
    /\ \E fs \in FSInfos :
          /\ fsIn' = fs
          /\ fsName' = mapFS(fs)
          /\ musicFS' = Inc(musicFS, mapFS(fs))
    /\ fsCalls' = fsCalls + 1
    /\ UNCHANGED <<serverVars, playerVars, binVars, statVars, trimVars,
                   chartVars, verVars, calcVars, loopVars, barVars,
                   exportVars, purgeVars>>

NextFS == CallMapFS

SpecFS == Init /\ [][NextFS]_vars

(***************************************************************************)
(* mapVersion on its own                                                   *)
(***************************************************************************)
\* the pieces the version strings of the model are put together from
VersionPieces ==
    {"(", ")", "0b184893", "0B18489", "(0b184893278620bb)", "(734eb30a)",
     "0.54.2 ", "(source_archive)"}

RECURSIVE Concat(_)
Concat(q) == IF q = <<>> THEN "" ELSE q[1] \o Concat(Tail(q))

Versions == {Concat(q) : q \in SeqsUpTo(VersionPieces, MaxPieces)}

CallMapVersion ==
    /\ verCalls = 0
    /\ \E version \in Versions :
          /\ verIn' = version
          /\ verOut' = mapVersion(version)
    /\ verCalls' = 1
    /\ UNCHANGED <<serverVars, playerVars, binVars, statVars, trimVars,
                   chartVars, fsVars, calcVars, loopVars, barVars,
                   exportVars, purgeVars>>

NextVersion == CallMapVersion

SpecVersion == Init /\ [][NextVersion]_vars

(***************************************************************************)
(* calcStats on its own                                                    *)
(***************************************************************************)
CalcValues == (0 - 2)..MaxCalcValue

CallCalcStats ==
    /\ calcCalls = 0
    /\ \E values \in SeqsUpTo(CalcValues, MaxCalcLen) :
          /\ calcIn' = values
          /\ calcAfter' = SortedCopy(values).values
          /\ calcOut' = calcStats(values)
    /\ calcCalls' = 1
    /\ UNCHANGED <<serverVars, playerVars, binVars, statVars, trimVars,
                   chartVars, fsVars, verVars, loopVars, barVars,
                   exportVars, purgeVars>>

NextCalc == CallCalcStats

SpecCalc == Init /\ [][NextCalc]_vars

(***************************************************************************)
(* The counting loop of SummarizeData on its own: one pass over the rows   *)
(***************************************************************************)
CallSummarizeLoop ==
    /\ loopCalls = 0
    /\ \E reports \in SeqsUpTo(LoopReports, MaxLoopRows) :
          LET res == [i \in 1..Len(reports) |-> [data |-> reports[i]]] IN
          \E firsts \in RowFirstHits(res, Len(res)) :
             /\ loopRows' = reports
             /\ loopFirsts' = firsts
             /\ loopSummary' = SummarizeLoop(res, firsts, Len(res))
    /\ loopCalls' = 1
    /\ UNCHANGED <<serverVars, playerVars, binVars, statVars, trimVars,
                   chartVars, fsVars, verVars, calcVars, barVars,
                   exportVars, purgeVars>>

NextLoop == CallSummarizeLoop

SpecLoop == Init /\ [][NextLoop]_vars

(***************************************************************************)
(* buildTracksChart on its own                                             *)
(***************************************************************************)
\* the summaries of two days: an earlier day with one instance of 100
\* tracks, and the latest day with the instances of the given track counts
TrackSummaries(trackCounts) ==
    IF trackCounts = <<>> THEN <<>>
    ELSE <<[Time |-> 1,
            Data |-> [NumInstances |-> 1, Tracks |-> TracksOf(<<100>>)]],
           [Time |-> 2,
            Data |-> [NumInstances |-> Len(trackCounts),
                      Tracks |-> TracksOf(trackCounts)]]>>

CallBuildTracksChart ==
    /\ barCalls = 0
    /\ \E trackCounts \in SeqsUpTo(TrackCounts, MaxTrackReports) :
          /\ barIn' = TrackSummaries(trackCounts)
          /\ barOut' = buildTracksChart(TrackSummaries(trackCounts))
    /\ barCalls' = 1
    /\ UNCHANGED <<serverVars, playerVars, binVars, statVars, trimVars,
                   chartVars, fsVars, verVars, calcVars, loopVars,
                   exportVars, purgeVars>>

NextBars == CallBuildTracksChart

SpecBars == Init /\ [][NextBars]_vars

(***************************************************************************)
(* The server with its SummarizeData invocations serialized and a chart    *)
(* export running beside them                                              *)
(***************************************************************************)
\* ExportChartsJSON: summaries, err := summary.GetSummaries(), at any moment
\* of a SaveSummary; a day is due when the file SaveSummary found for it
\* held a Summary that GetSummaries returns
Export ==
    /\ exportCalls < MaxExports
    /\ exportSeen' =
          {GetSummaries(files)[i].Time : i \in DOMAIN GetSummaries(files)}
    /\ exportDue' =
          {SummaryFilePath(date[r]) :
              r \in {q \in Runs :
                       /\ pc[q] \in {"save", "write"}
                       /\ LET d == SummaryFilePath(date[q])
                              before == GetSummaries([files EXCEPT ![d] = prev[q]])
                          IN \E i \in DOMAIN before : before[i].Time = d}}
    /\ exportCalls' = exportCalls + 1
    /\ UNCHANGED <<serverVars, playerVars, binVars, statVars, trimVars,
                   chartVars, fsVars, verVars, calcVars, loopVars, barVars,
                   purgeVars>>

NextExport ==
    \/ NextSerial
    \/ Export

SpecExport == Init /\ [][NextExport]_vars

(***************************************************************************)
(* The long run of the server: reports, the summarize task and the cleanup *)
(* task over more days than the retention                                  *)
(***************************************************************************)
TickLong ==
    /\ now + 1 < MaxLongDays * SecondsPerDay
    /\ now' = now + 1
    /\ UNCHANGED <<insights, files, runVars, faults, playerVars, libVars>>

\* POST /collect during the first days of the run
CollectLong ==
    /\ stored < MaxLongReports
    /\ now < CollectDays * SecondsPerDay
    /\ \E id \in InstanceIds :
          insights' = SaveReport(insights, id, ReportOf[id], now)
    /\ stored' = stored + 1
    /\ UNCHANGED <<now, files, runVars, faults, playerVars, binVars, statVars,
                   trimVars, chartVars, fsVars, verVars, calcVars, loopVars,
                   barVars, exportVars, purgedDays, sumDate, sumPurged, dir>>

\* the cleanup task: db.PurgeOldEntries(dbConn)
Purge ==
    /\ insights' = PurgeOldEntries(insights, now)
    /\ purgedDays' = purgedDays \cup
                        {<<insights[n].time[1]>> : n \in PurgedRows(insights, now)}
    /\ UNCHANGED <<now, files, runVars, faults, playerVars, binVars, statVars,
                   trimVars, chartVars, fsVars, verVars, calcVars, loopVars,
                   barVars, exportVars, stored, sumDate, sumPurged, dir>>

\* one SummarizeData call of the summarize task, no fault occurring
SummarizeLong ==
    /\ \E dt \in SummarizeDates(now) :
       \E res \in SelectData(insights, dt) :
       \E firsts \in RowFirstHits(res, Len(res)) :
          LET summary == SummarizeRows(res, firsts, Len(res)) IN
          /\ sumDate' = DateFormat(dt)
          /\ dir' = IF NoData(summary) THEN dir
                    ELSE Put(dir, DateFormat(dt)[1], MarshalIndent(summary))
    /\ sumPurged' = purgedDays
    /\ UNCHANGED <<dbVars, files, runVars, faults, playerVars, binVars,
                   statVars, trimVars, chartVars, fsVars, verVars, calcVars,
                   loopVars, barVars, exportVars, stored, purgedDays>>

NextLong ==
    \/ TickLong
    \/ CollectLong
    \/ Purge
    \/ SummarizeLong

SpecLong == Init /\ [][NextLong]_vars

(***************************************************************************)
(* Properties                                                              *)
(***************************************************************************)
\* the rows the iterator of invocation r yielded
Yielded(r) == SubSeq(rows[r], 1, consumed[r])

\* invocation r got as far as calling SaveSummary
CalledSave(r) == out[r] # <<>>

\* the records GetSummaries returns for day d
RecordsOf(fs, d) ==
    LET all == GetSummaries(fs)
    IN {all[i].Data : i \in {j \in DOMAIN all : all[j].Time = d}}

\* seconds since day 0 00:00:00 of a stored time
Seconds(time) == time[1] * SecondsPerDay + time[2]

\* C1: the sequence SelectData yields for a day holds at most one report per
\* instance id, so the Summary counts every instance that reported within
\* the day exactly once
C1_OneReportPerInstance ==
    \A r \in Runs :
        /\ \A i, j \in DOMAIN rows[r] : i # j => rows[r][i].id # rows[r][j].id
        /\ (pc[r] = "save" /\ consumed[r] = Len(rows[r])) =>
              Unmarshal(out[r]).summary.NumInstances
                  = Cardinality({rows[r][i].id : i \in DOMAIN rows[r]})

\* C2: a Summary is written to the store only when the whole report sequence
\* of the day was consumed, never one built from a strict prefix of it
C2_NoPartialSummary ==
    \A r \in Runs :
        (pc[r] = "write" \/ (pc[r] = "done" /\ CalledSave(r) /\ err[r] = "nil"))
            => consumed[r] = Len(rows[r])

\* C3: when SaveSummary fails, GetSummaries still returns for that day what
\* it returned when SaveSummary was called
C3_FailedSaveKeepsPrevious ==
    \A r \in Runs :
        (pc[r] = "done" /\ CalledSave(r) /\ err[r] = "error" /\ ~disturbed[r])
            => RecordsOf(files, SummaryFilePath(date[r]))
                  = RecordsOf([files EXCEPT ![SummaryFilePath(date[r])] = prev[r]],
                              SummaryFilePath(date[r]))

\* C4: two SummarizeData invocations for the same day that consume the same
\* report sequence hand the same bytes to the store
C4_SameInputSameBytes ==
    \A r1, r2 \in Runs :
        (/\ CalledSave(r1) /\ CalledSave(r2)
         /\ date[r1] = date[r2]
         /\ Yielded(r1) = Yielded(r2))
            => out[r1] = out[r2]

\* C5: once two invocations for the same day have both finished without an
\* error (and no I/O fault occurred at all), the day's file holds exactly
\* what one of them wrote
C5_LastWriteWins ==
    \A r1, r2 \in Runs :
        (/\ r1 # r2
         /\ faults = 0
         /\ pc[r1] = "done" /\ pc[r2] = "done"
         /\ CalledSave(r1) /\ CalledSave(r2)
         /\ err[r1] = "nil" /\ err[r2] = "nil"
         /\ date[r1] = date[r2])
            => files[SummaryFilePath(date[r1])].content \in {out[r1], out[r2]}

C7_EmptyDayNoOp ==
    [][\A r \in Runs : (Summarize(r) /\ consumed'[r] = 0) =>
          /\ pc'[r] = "done"
          /\ err'[r] = "nil"
          /\ out'[r] = <<>>
          /\ files' = files]_vars

\* C7 witness: an invocation returned nil without saving for a day that
\* already has a persisted Summary
C7_Witness ==
    \E r \in Runs :
        /\ pc[r] = "done" /\ err[r] = "nil" /\ ~CalledSave(r)
        /\ RecordsOf(files, SummaryFilePath(date[r])) # {}

\* the label the first matching rule in the listed order gives p
FirstRuleLabel(p) ==
    IF Matching(p) = {} THEN p
    ELSE LabelOf[CHOOSE i \in Matching(p) : \A j \in Matching(p) : i <= j]

\* C8: every identifier gets the label of the first rule it matches in the
\* listed rule order, the same on every invocation
C8_FirstMatchWins ==
    \A p \in PlayerIds : labelled[p] \subseteq {FirstRuleLabel(p)}

\* the identifiers of the last call that were given label L
MappedTo(L) == {p \in DOMAIN apIn : Relabel(p, firstIn[p]) = L}

\* the largest raw count among the identifiers given label L
MaxCountOf(L) == LargestCount(apIn, firstIn, L)

\* the labels the last call produced
LabelsOfCall == {Relabel(p, firstIn[p]) : p \in DOMAIN apIn} \ {""}

\* C9: a call adds to the running map, for every label, the maximum of the
\* raw counts of the identifiers mapped to it and returns the sum of these
\* maxima; over the calls the running map holds the sum of the maxima
C9_MaxPerLabel ==
    /\ \A L \in LabelsOfCall \cup DOMAIN players \cup DOMAIN playersIn :
          Get(players, L) = Get(playersIn, L) + MaxCountOf(L)
    /\ total = SumOver([L \in LabelsOfCall |-> MaxCountOf(L)], LabelsOfCall)
    /\ DOMAIN players = (DOMAIN playersIn) \cup LabelsOfCall
    /\ summed = players

\* C9 witness: two identifiers with different counts collapsed onto one
\* label in the second call on a running map
C9_Witness ==
    /\ calls = 2
    /\ \E p, q \in DOMAIN apIn :
          /\ p # q
          /\ Relabel(p, firstIn[p]) = Relabel(q, firstIn[q])
          /\ Relabel(p, firstIn[p]) # ""
          /\ apIn[p] < apIn[q]
    /\ playersIn # EmptyMap

FeishinInput == ("feishin_" :> 1 @@ "Feishin" :> 1)

\* C10 as stated: for {"feishin_":1, "Feishin":1} both entries are dropped,
\* the running map stays empty and the total is 0
C10_BothDiscarded ==
    (calls = 1 /\ apIn = FeishinInput) => (players = EmptyMap /\ total = 0)

\* C10 amended: for {"feishin_":1, "Feishin":1} only "feishin_" is dropped;
\* "Feishin" matches no rule and is kept: the map is {"Feishin":1}, total 1
C10_OnlyLowerCaseDiscarded ==
    (calls = 1 /\ apIn = FeishinInput) =>
        (players = ("Feishin" :> 1) /\ total = 1)

\* C10 witness: mapPlayerTypes was called on {"feishin_":1, "Feishin":1}
C10_Witness == calls = 1 /\ apIn = FeishinInput

\* the identifiers of the last call, other than p, that a rule labels p
RuleLabelled(p) ==
    {q \in (DOMAIN apIn) \ {p} : firstIn[q] # 0 /\ LabelOf[firstIn[q]] = p}

\* C11 as stated: every identifier that matches no rule is added to the
\* running map under its own name with its own count
C11_KeptWithItsCount ==
    \A p \in DOMAIN apIn :
        firstIn[p] = 0 =>
            /\ p \in DOMAIN players
            /\ players[p] = Get(playersIn, p) + apIn[p]

\* C11 amended: every non-empty identifier that matches no rule is its own
\* label: its entry of the running map grows by its count when no rule
\* gives another identifier of the report that label, and by the largest
\* count under that label otherwise, never by less than its count, and the
\* total is not below that amount; {"feishin_":1, "Feishin":1} on an empty
\* map yields {"Feishin":1} and total 1
C11_UnmatchedIsOwnLabel ==
    /\ \A p \in (DOMAIN apIn) \ {""} :
          firstIn[p] = 0 =>
              /\ p \in DOMAIN players
              /\ players[p] >= Get(playersIn, p) + apIn[p]
              /\ total >= players[p] - Get(playersIn, p)
              /\ RuleLabelled(p) = {} =>
                     players[p] = Get(playersIn, p) + apIn[p]
              /\ \E q \in RuleLabelled(p) \cup {p} :
                     players[p] = Get(playersIn, p) + apIn[q]
    /\ (apIn = FeishinInput /\ playersIn = EmptyMap) =>
          (players = ("Feishin" :> 1) /\ total = 1)

\* C11 witness: an unmatched identifier with a positive count, alone under
\* its label, was added to a running map that already held it
C11_Witness ==
    /\ calls = 2
    /\ \E p \in (DOMAIN apIn) \ {""} :
          /\ firstIn[p] = 0
          /\ apIn[p] > 0
          /\ RuleLabelled(p) = {}
          /\ Get(playersIn, p) > 0

\* the thresholds of the last call that do not exceed its count
Qualifying(in) ==
    {in.bins[i] : i \in {j \in DOMAIN in.bins : in.bins[j] <= in.count}}

\* the largest of them
Highest(in) == CHOOSE b \in Qualifying(in) : \A x \in Qualifying(in) : x <= b

\* C12: mapToBins raises by one the counter keyed by the largest threshold
\* not above the count and no other counter, raises none when no threshold
\* qualifies, and two calls with the same count and bins raise that counter
\* by two
C12_HighestBin ==
    /\ binCalls > 0 =>
          IF Qualifying(binIn) = {} THEN counters = countersIn
          ELSE LET k == Sprintf_d(Highest(binIn))
               IN /\ DOMAIN counters = (DOMAIN countersIn) \cup {k}
                  /\ counters[k] = Get(countersIn, k) + 1
                  /\ \A j \in DOMAIN countersIn :
                         j # k => counters[j] = countersIn[j]
    /\ (binCalls > 1 /\ binIn = binInPrev /\ Qualifying(binIn) # {}) =>
          LET k == Sprintf_d(Highest(binIn))
          IN counters[k] = Get(countersInPrev, k) + 2

\* C12 witness: two calls with the same count and bins, the count at or
\* above two thresholds and below a third
C12_Witness ==
    /\ binCalls = 2
    /\ binIn = binInPrev
    /\ Cardinality(Qualifying(binIn)) >= 2
    /\ Cardinality(Qualifying(binIn)) < Len(binIn.bins)

\* the values of Library field f over the consumed reports, in row order
ValuesOf(f) == [i \in 1..Len(statRows) |-> statRows[i][f]]

IsPositive(v) == v > 0

\* a Summary is persisted only when NumInstances is not 0
StatsPersisted == statCalls = 1 /\ statSummary.NumInstances # 0

\* C13: in a persisted Summary the track, album and artist Stats are those
\* of the strictly positive values (absent when there is none, min >= 1
\* otherwise), and the playlist, share, radio and library Stats are those
\* of all NumInstances values, zeros included, hence present
C13_StatsSamples ==
    StatsPersisted =>
        /\ \A p \in {<<"TrackStats", "Tracks">>, <<"AlbumStats", "Albums">>,
                      <<"ArtistStats", "Artists">>} :
              LET st == statSummary[p[1]]
                  positive == SelectSeq(ValuesOf(p[2]), IsPositive)
              IN /\ st = calcStats(positive)
                 /\ st = NilStats <=> positive = <<>>
                 /\ st # NilStats => st.Min >= 1
        /\ \A p \in {<<"PlaylistStats", "Playlists">>,
                      <<"ShareStats", "Shares">>, <<"RadioStats", "Radios">>,
                      <<"LibraryStats", "Libraries">>} :
              LET st == statSummary[p[1]]
              IN /\ st = calcStats(ValuesOf(p[2]))
                 /\ st # NilStats
                 /\ Len(ValuesOf(p[2])) = statSummary.NumInstances

\* C13 witness: two reports, one with zero tracks and one with some, and
\* one of them with zero playlists
C13_Witness ==
    /\ StatsPersisted
    /\ Len(statRows) = 2
    /\ \E i, j \in 1..2 : statRows[i].Tracks = 0 /\ statRows[j].Tracks > 0
    /\ \E i \in 1..2 : statRows[i].Playlists = 0
    /\ statSummary.PlaylistStats.Min = 0

\* element i of the input has fewer than 80% of the instances of element
\* i - 1
Below80(i) ==
    10 * trimIn[i].Data.NumInstances < 8 * trimIn[i - 1].Data.NumInstances

\* C14: ExcludeIncompleteDays returns the prefix left after removing the
\* last element again and again while two or more remain and the last has
\* fewer than 80% of the instances of the one before it: every removed
\* element shows the drop, the last one kept does not (or is the only one),
\* and [1000,1050,1100,700,100,50] is cut to [1000,1050,1100]
C14_TrailingDropsTrimmed ==
    trimCalls = 1 =>
        LET n == Len(trimOut)
        IN /\ n <= Len(trimIn)
           /\ trimOut = SubSeq(trimIn, 1, n)
           /\ Len(trimIn) > 0 => n > 0
           /\ \A i \in (n + 1)..Len(trimIn) : Below80(i)
           /\ n > 1 => ~Below80(n)
           /\ trimIn = DailyCounts(TrimExample) =>
                  trimOut = DailyCounts(<<1000, 1050, 1100>>)

\* C14 witness: the list of the test was trimmed to its first three days
C14_Witness ==
    /\ trimCalls = 1
    /\ trimIn = DailyCounts(TrimExample)
    /\ Len(trimOut) = 3

\* buildVersionsChart has returned a chart
ChartBuilt == chartPc = "chart" /\ chart.panic = ""

LastDate == chartIn[Len(chartIn)].Time

\* the selectionDays most recent calendar days, the last summary's included
RecentDays == {d \in 1..MaxAxis + 1 : LastDate - selectionDays < d /\ d <= LastDate}

\* the categories of the summaries whose day is in D
CategoriesOf(D) ==
    UNION {DOMAIN chartIn[i].Data.Versions :
              i \in {j \in DOMAIN chartIn : chartIn[j].Time \in D}}

\* per category, the sum of its counts over the summaries whose day is in D
TotalsOfDays(D) ==
    [q \in CategoriesOf(D) |->
        SumSeq([i \in DOMAIN chartIn |->
                   IF chartIn[i].Time \in D
                   THEN Get(chartIn[i].Data.Versions, q) ELSE 0])]

\* the versions buildVersionsChart selected
Selected == UNION {chart.topVersionsList[i] : i \in DOMAIN chart.topVersionsList}

\* C15: the totals used for the selection are the sums over exactly the
\* summaries of the VersionSelectionDays most recent calendar days, ending
\* at and including the day of the last summary
C15_WindowOfMDays ==
    ChartBuilt => chart.versionTotals = TotalsOfDays(RecentDays)

\* C16: the selected set has min(N, categories seen in the window) members,
\* no selected category has a smaller window total than one left out, and
\* a category with the largest window total is selected whatever the
\* totals outside the window are
C16_TopOfWindowTotals ==
    ChartBuilt =>
        LET W == TotalsOfDays(RecentDays)
            n == Cardinality(DOMAIN W)
        IN /\ Cardinality(Selected)
                  = (IF TopVersionsCount < n THEN TopVersionsCount ELSE n)
           /\ \A q \in Selected : \A r \in CategoriesOf(1..MaxAxis + 1) \ Selected :
                  Get(W, q) >= Get(W, r)
           /\ \A q \in DOMAIN W :
                  (\A r \in (DOMAIN W) \ {q} : W[q] > W[r]) => q \in Selected

\* the day of position i of the axis, and its summary
AxisDay(i) == AddDate(chartIn[1].Time, i - 1)

HasSummary(d) == \E i \in DOMAIN chartIn : chartIn[i].Time = d

SummaryOf(d) == chartIn[CHOOSE i \in DOMAIN chartIn : chartIn[i].Time = d]

\* C17: on every day with a Summary, "Others" is the day's total over all
\* categories minus the counts of the selected categories, so that All is
\* the sum of the selected series and Others; on a day without a Summary
\* every series is null
C17_OthersIsResidual ==
    ChartBuilt =>
        \A i \in 1..Len(chart.XAxis) :
            IF HasSummary(AxisDay(i))
            THEN LET versions == SummaryOf(AxisDay(i)).Data.Versions
                     dayTotal == SumOver(versions, DOMAIN versions)
                     picked == SumOver([q \in Selected |-> Get(versions, q)],
                                       Selected)
                 IN /\ chart.All[i] = <<dayTotal>>
                    /\ chart.Others[i] = <<dayTotal - picked>>
                    /\ \A q \in Selected :
                           chart.Versions[q][i] = <<Get(versions, q)>>
                    /\ DOMAIN chart.Versions = Selected
            ELSE /\ chart.All[i] = <<>>
                 /\ chart.Others[i] = <<>>
                 /\ \A q \in Selected : chart.Versions[q][i] = <<>>

\* C17 witness: a chart with a day without Summary, a day outside the
\* selection window and a day whose Others and selected counts are both
\* positive
C17_Witness ==
    /\ ChartBuilt
    /\ \E i \in 1..Len(chart.XAxis) : ~HasSummary(AxisDay(i))
    /\ \E i \in 1..Len(chart.XAxis) :
          /\ HasSummary(AxisDay(i))
          /\ AxisDay(i) \notin RecentDays
          /\ chart.Others[i] # <<0>>
          /\ \E q \in Selected : chart.Versions[q][i] # <<0>>
    /\ \E i \in 1..Len(chart.XAxis) :
          /\ AxisDay(i) \in RecentDays
          /\ HasSummary(AxisDay(i))
          /\ chart.Others[i] # <<0>>

\* buildTimeSeriesData has been called on chartIn
SeriesBuilt == chartPc \in {"series", "gaps", "chart"}

\* C18: for summaries in date order with distinct days the axis has one
\* label per calendar day from the first to the last summary's day, in
\* consecutive order, and the lookup holds a day exactly when a summary of
\* that day exists, and holds that summary
C18_OneLabelPerDay ==
    (SeriesBuilt /\ Len(chartIn) > 0) =>
        LET first == chartIn[1].Time
        IN /\ Len(ts.Dates) = LastDate - first + 1
           /\ \A i \in 1..Len(ts.Dates) :
                  ts.Dates[i] = ChartDateFormat(first + i - 1)
           /\ DOMAIN ts.Lookup = {chartIn[i].Time : i \in DOMAIN chartIn}
           /\ \A i \in DOMAIN chartIn : ts.Lookup[chartIn[i].Time] = chartIn[i]
           /\ ts.Start = first

\* C18 witness: summaries of day 1 and day 5 only gave the five labels
\* "Jan 01, 2025" to "Jan 05, 2025"
C18_Witness ==
    /\ SeriesBuilt
    /\ {chartIn[i].Time : i \in DOMAIN chartIn} = {1, 5}
    /\ Len(ts.Dates) = 5
    /\ ts.Dates[1] = "Jan 01, 2025"
    /\ ts.Dates[5] = "Jan 05, 2025"

\* findGaps has been called on ts
GapsFound == chartPc \in {"gaps", "chart"}

AxisDays == {AxisDay(i) : i \in 1..Len(ts.Dates)}

\* the maximal runs of consecutive axis days without summary
AbsentRuns ==
    {r \in AxisDays \X AxisDays :
        /\ r[1] <= r[2]
        /\ \A d \in r[1]..r[2] : ~HasSummary(d)
        /\ (r[1] - 1) \in AxisDays => HasSummary(r[1] - 1)
        /\ (r[2] + 1) \in AxisDays => HasSummary(r[2] + 1)}

\* the day a label of the axis stands for
DayOf(label) == CHOOSE d \in 1..(MaxAxis + 1) : ChartDateFormat(d) = label

\* C19: the gaps are exactly the maximal runs of consecutive axis days
\* without summary, one [start, end] pair each with start <= end, in
\* ascending order and disjoint; summaries of day 1 and day 5 only give
\* the single gap from day 2 to day 4
C19_GapsAreAbsentRuns ==
    (GapsFound /\ Len(chartIn) > 0) =>
        /\ {gaps[i] : i \in DOMAIN gaps} = {gapRange(r[1], r[2]) : r \in AbsentRuns}
        /\ Len(gaps) = Cardinality(AbsentRuns)
        /\ \A i \in DOMAIN gaps : DayOf(gaps[i].StartDate) <= DayOf(gaps[i].EndDate)
        /\ \A i, j \in DOMAIN gaps :
              i < j => DayOf(gaps[i].EndDate) < DayOf(gaps[j].StartDate)
        /\ \A d \in AxisDays :
              ~HasSummary(d) <=>
                 \E i \in DOMAIN gaps :
                    DayOf(gaps[i].StartDate) <= d /\ d <= DayOf(gaps[i].EndDate)
        /\ {chartIn[i].Time : i \in DOMAIN chartIn} = {1, 5} =>
              gaps = <<[StartDate |-> "Jan 02, 2025", EndDate |-> "Jan 04, 2025"]>>

\* C19 witness: one gap of three days, from day 2 to day 4, was found
C19_Witness ==
    /\ GapsFound
    /\ Len(gaps) = 1
    /\ DayOf(gaps[1].StartDate) = 2
    /\ DayOf(gaps[1].EndDate) = 4

\* C20: every function accepts an empty list and returns empty results
\* without failing, and for a list of one summary returns it untrimmed,
\* with an axis of one day and no gap
C20_EmptyAndSingleTolerated ==
    /\ (chartPc = "chart" /\ Len(chartIn) = 0) =>
          /\ trimOut = <<>>
          /\ ts.Dates = <<>>
          /\ ts.Lookup = EmptyMap
          /\ gaps = <<>>
          /\ chart.panic = ""
    /\ (chartPc = "chart" /\ Len(chartIn) = 1) =>
          /\ trimOut = chartIn
          /\ Len(ts.Dates) = 1
          /\ gaps = <<>>
          /\ chart.panic = ""
          /\ chart.MarkAreas = <<>>


\* the last SaveSummary call for its day, every call having returned
LastSaveOfDay(r) ==
    /\ NoneRunning
    /\ pc[r] = "done" /\ CalledSave(r)
    /\ \A q \in Runs : q > r => ~(CalledSave(q) /\ date[q] = date[r])

\* the Summaries SummarizeData may have handed to that call
SavedBy(r) ==
    {SummarizeRows(rows[r], f, consumed[r]) :
        f \in RowFirstHits(rows[r], consumed[r])}

\* C21: once every SaveSummary call has returned, GetSummaries returns its
\* records in strictly ascending date order, at most one per day, and the
\* record of a day is the Summary most recently saved for it, field by
\* field: the one the last call was given when that call succeeded, and the
\* one persisted before it when it failed; a Summary with NumInstances = 0
\* is left out
C21_RoundTripLatest ==
    LET recs == GetSummaries(files) IN
    /\ \A i, j \in DOMAIN recs : i < j => recs[i].Time < recs[j].Time
    /\ \A i \in DOMAIN recs : recs[i].Data.NumInstances # 0
    /\ \A r \in Runs :
          LastSaveOfDay(r) =>
             LET d == SummaryFilePath(date[r]) IN
             IF err[r] = "nil"
             THEN \E s \in SavedBy(r) : RecordsOf(files, d) = {s}
             ELSE RecordsOf(files, d)
                     = RecordsOf([files EXCEPT ![d] = prev[r]], d)

LowerHex == "0123456789abcdef"

HexVal(c) == (CHOOSE i \in 1..Len(LowerHex) : Char(LowerHex, i) = c) - 1

\* the tag "unknown(0x-...)" of a magic number printed as a negative int32
IsSigned(t) == Len(t) > 12 /\ SubSeq(t, 1, 11) = "unknown(0x-"

\* the eight hex digits of the magnitude of a signed tag
Magnitude(t) ==
    LET h == SubSeq(t, 12, Len(t) - 1)
    IN [i \in 1..8 |-> IF i <= 8 - Len(h) THEN 0
                       ELSE HexVal(Char(h, i - (8 - Len(h))))]

\* digs + 1 modulo 2^32, the carry entering at digit i
RECURSIVE AddOne(_, _)
AddOne(digs, i) ==
    IF i = 0 THEN digs
    ELSE IF digs[i] = 15 THEN AddOne([digs EXCEPT ![i] = 0], i - 1)
    ELSE [digs EXCEPT ![i] = @ + 1]

\* %x of the digits: no leading zeros
RECURSIVE FormatHex(_, _)
FormatHex(digs, i) ==
    IF i > 8 THEN ""
    ELSE IF digs[i] = 0 /\ i < 8 /\ \A j \in 1..i : digs[j] = 0
    THEN FormatHex(digs, i + 1)
    ELSE Char(LowerHex, digs[i] + 1) \o FormatHex(digs, i + 1)

\* the tag of the same magic number printed as a uint32: 2^32 minus the
\* magnitude, as the two's complement of its digits
Unsigned32(t) ==
    LET m == Magnitude(t)
    IN "unknown(0x" \o FormatHex(AddOne([i \in 1..8 |-> 15 - m[i]], 8), 1) \o ")"

\* C22: a tag the lookup table of mapFS holds in signed (negative hex) form
\* and the unsigned 32-bit form of the same magic number map to the same name
C22_SignedUnsignedAgree ==
    (fsCalls >= 1 /\ fsIn # <<>> /\ fsIn[1] \in DOMAIN fsMappings
     /\ IsSigned(fsIn[1]))
        => mapFS(<<Unsigned32(fsIn[1])>>) = fsName

\* the k-th smallest of the caller's values, found by counting
KthSmallest(k) ==
    CHOOSE x \in {calcIn[i] : i \in DOMAIN calcIn} :
        /\ Cardinality({i \in DOMAIN calcIn : calcIn[i] < x}) < k
        /\ k <= Cardinality({i \in DOMAIN calcIn : calcIn[i] <= x})

\* the fraction q equals num / den
IsFraction(q, num, den) == q.den > 0 /\ q.num * den = num * q.den

\* the sum over the values of (N * v - sum)^2, which is N^2 times the sum
\* of the squared deviations from the mean
ScaledSquares ==
    SumSeq([i \in DOMAIN calcIn |->
               (Len(calcIn) * calcIn[i] - SumSeq(calcIn))
               * (Len(calcIn) * calcIn[i] - SumSeq(calcIn))])

\* C23: for non-empty values calcStats returns the smallest and the largest
\* value, the mean sum/N, the median (the middle value for odd N, the
\* average of the two middle values for even N) and the population standard
\* deviation (divisor N), and leaves the caller's values in their order; for
\* empty values it returns nil
C23_Statistics ==
    calcCalls = 1 =>
       LET N == Len(calcIn) IN
       /\ calcAfter = calcIn
       /\ IF N = 0 THEN DOMAIN calcOut = {"nil"}
          ELSE /\ DOMAIN calcOut = {"Min", "Max", "Mean", "Median", "StdDev"}
               /\ calcOut.Min = KthSmallest(1)
               /\ calcOut.Max = KthSmallest(N)
               /\ IsFraction(calcOut.Mean, SumSeq(calcIn), N)
               /\ IF N % 2 = 1
                  THEN IsFraction(calcOut.Median, KthSmallest((N + 1) \div 2), 1)
                  ELSE IsFraction(calcOut.Median,
                                  KthSmallest(N \div 2)
                                  + KthSmallest((N \div 2) + 1), 2)
               /\ IsFraction(calcOut.StdDev.sqrtOf, ScaledSquares, N * N * N)

\* an unsorted input of even length whose median lies between two values
C23_Witness ==
    /\ calcCalls = 1
    /\ calcIn = <<3, 0 - 2, 1, 0>>
    /\ calcOut.Median = [num |-> 1, den |-> 2]
    /\ calcAfter = <<3, 0 - 2, 1, 0>>

\* s holds "(" at i and ")" at j with nothing but hex digits, at least
\* HashLen of them, between the two
IsGroup(s, i, j) ==
    /\ Char(s, i) = "(" /\ Char(s, j) = ")"
    /\ j - i - 1 >= HashLen
    /\ \A k \in (i + 1)..(j - 1) : IsHex(Char(s, k))

HasGroup(s) == \E i, j \in 1..Len(s) : IsGroup(s, i, j)

\* position p of s holds a hex digit after the first HashLen of a group
Beyond(s, p) ==
    \E i \in 1..(p - HashLen - 1) : \E j \in (p + 1)..Len(s) : IsGroup(s, i, j)

\* s from position p on without the digits that lie beyond
RECURSIVE Truncated(_, _)
Truncated(s, p) ==
    IF p > Len(s) THEN ""
    ELSE IF Beyond(s, p) THEN Truncated(s, p + 1)
    ELSE Char(s, p) \o Truncated(s, p + 1)

\* C24: mapVersion(mapVersion(v)) = mapVersion(v); every parenthesized run
\* of 8 or more hex digits is cut down to its first 8 and nothing else
\* changes, so a string without such a run is returned as it is
C24_Idempotent ==
    verCalls = 1 =>
       /\ mapVersion(verOut) = verOut
       /\ verOut = Truncated(verIn, 1)
       /\ ~HasGroup(verIn) => verOut = verIn

\* the long commit hash of the repository's test
C24_Witness ==
    /\ verCalls = 1
    /\ verIn = "0.54.2 (0b184893278620bb)"
    /\ verOut = "0.54.2 (0b184893)"

\* C25: a chart export that calls GetSummaries while SaveSummary is
\* rewriting the file of a day is returned every day that had a persisted
\* Summary when that SaveSummary began
C25_ExportSeesEveryDay == exportDue \subseteq exportSeen

\* the sum of the counters of a count-map
TotalOf(m) == SumOver(m, DOMAIN m)

\* the number of consumed reports that satisfy P
NumReports(P(_)) == Cardinality({i \in DOMAIN loopRows : P(loopRows[i])})

BareLinuxReport(data) == data.OS.Type = "linux" /\ ~data.OS.Containerized

\* C26: in every persisted Summary NumInstances is the number of reports
\* consumed; the counters of Versions, OS, Users, Players, MusicFS and DataFS
\* sum to NumInstances; those of Tracks, Albums and Artists sum to the number
\* of reports whose count is not negative (NumInstances when none is); those
\* of Distros sum to the number of non-containerized Linux reports
C26_CountMapsSum ==
    (loopCalls = 1 /\ loopSummary.NumInstances # 0) =>
       /\ loopSummary.NumInstances = Len(loopRows)
       /\ \A f \in {"Versions", "OS", "Users", "Players", "MusicFS", "DataFS"} :
             TotalOf(loopSummary[f]) = loopSummary.NumInstances
       /\ \A f \in {"Tracks", "Albums", "Artists"} :
             LET NotNegative(data) == data.Library[f] >= 0
             IN TotalOf(loopSummary[f]) = NumReports(NotNegative)
       /\ TotalOf(loopSummary.Distros) = NumReports(BareLinuxReport)

\* a day with a bare Linux host, a containerized one and a host that is
\* not Linux
C26_Witness ==
    /\ loopCalls = 1
    /\ Len(loopRows) = 3
    /\ NumReports(BareLinuxReport) = 1
    /\ \E i \in DOMAIN loopRows :
          loopRows[i].OS.Type = "linux" /\ loopRows[i].OS.Containerized
    /\ \E i \in DOMAIN loopRows : loopRows[i].OS.Type = "freebsd"
    /\ TotalOf(loopSummary.Distros) = 1
    /\ TotalOf(loopSummary.Tracks) = 2

\* strconv.Atoi of a key fmt.Sprintf("%d", n) printed
Atoi(k) == CHOOSE n \in 0..99 : Itoa(n) = k

\* the sum over the keys k of Players of k times Players[k]
RECURSIVE WeightedSum(_, _)
WeightedSum(m, ks) ==
    IF ks = {} THEN 0
    ELSE LET k == CHOOSE x \in ks : TRUE
         IN Atoi(k) * m[k] + WeightedSum(m, ks \ {k})

\* the sum of the totals mapPlayerTypes returned for the first n reports
RECURSIVE DayTotal(_)
DayTotal(n) ==
    IF n = 0 THEN 0
    ELSE DayTotal(n - 1)
         + mapPlayerTypes(loopRows[n].ActivePlayers, loopFirsts[n],
                          EmptyMap).total

\* C27: in every persisted Summary the counts of PlayerTypes sum to the sum
\* over the keys k of Players of k times Players[k], and both are the sum of
\* the totals mapPlayerTypes returned for the reports of the day
C27_PlayersAgree ==
    (loopCalls = 1 /\ loopSummary.NumInstances # 0) =>
       /\ TotalOf(loopSummary.PlayerTypes)
             = WeightedSum(loopSummary.Players, DOMAIN loopSummary.Players)
       /\ WeightedSum(loopSummary.Players, DOMAIN loopSummary.Players)
             = DayTotal(Len(loopRows))

\* two reports with players of the same label, one with a total of 3 and
\* one with a total of 1
C27_Witness ==
    /\ loopCalls = 1
    /\ Len(loopRows) = 2
    /\ loopSummary.Players = ("3" :> 1 @@ "1" :> 1)
    /\ loopSummary.PlayerTypes = ("play:Sub" :> 3 @@ "HiBy" :> 1)

\* the latest summary buildTracksChart was given
LatestTracks == barIn[Len(barIn)].Data.Tracks

\* the bars that show the bin key
BarsOf(binKey) ==
    {i \in DOMAIN trackBinLabels :
        binKey \in DOMAIN binToLabel /\ binToLabel[binKey] = trackBinLabels[i]}

\* C28: every key mapToBins has written into the Tracks of the latest
\* Summary is shown under exactly one bar, and the bar values sum to the sum
\* of its counters
C28_EveryBinHasItsBar ==
    (barCalls = 1 /\ barIn # <<>>) =>
       /\ \A binKey \in DOMAIN LatestTracks : Cardinality(BarsOf(binKey)) = 1
       /\ SumSeq(barOut) = TotalOf(LatestTracks)

\* C29: whenever SummarizeData is called for a day, PurgeOldEntries has
\* deleted no report of that day, so no persisted Summary is replaced by one
\* computed from what a purge left of its reports
C29_NoSummaryAfterPurge == sumDate # <<>> => sumDate \notin sumPurged

\* the report of day 0 was summarized, then purged, and the summarize task
\* has run again since
C29_Witness ==
    /\ 0 \in DOMAIN dir
    /\ <<0>> \in sumPurged
    /\ insights = <<>>
    /\ sumDate # <<>>

\* the instances with a report stamped within the day of date dt
IdsOfDay(dt) ==
    {insights[n].id : n \in {m \in DOMAIN insights :
                                InDay(insights[m].time, DateFormat(dt))}}

\* the Summaries of one report of every instance of the day
ExpectedOf(dt) ==
    LET ids == SortedKeys(IdsOfDay(dt))
        res == [i \in 1..Len(ids) |-> [data |-> ReportOf[ids[i]]]]
    IN {SummarizeRows(res, f, Len(res)) : f \in RowFirstHits(res, Len(res))}

\* the last SummarizeData call for its day has returned without an error,
\* and no report of the day has been stored since it ran its query
RanAfterReports(r) ==
    /\ NoneRunning
    /\ pc[r] = "done" /\ err[r] = "nil"
    /\ \A q \in Runs : q > r => (pc[q] = "idle" \/ date[q] # date[r])
    /\ rows[r] \in SelectData(insights, date[r])

\* C30: once the summarize task has run SummarizeData for a day after the
\* reports of that day were stored, the persisted Summary of the day is the
\* one computed from the latest report of every instance of the day
C30_LateReportsReflected ==
    \A r \in Runs :
        (RanAfterReports(r) /\ IdsOfDay(date[r]) # {}) =>
           \E s \in ExpectedOf(date[r]) :
              RecordsOf(files, SummaryFilePath(date[r])) = {s}
====
